---- MODULE Spec2Model ----
(***************************************************************************)
(* Model of the power-reqwest client compiler front-end                    *)
(* (lib/src/parse.rs, lib/src/text_parsers.rs, lib/src/model.rs).          *)
(*                                                                         *)
(* Client::parse is modelled from the point where the top-level            *)
(* declarations have been read: the post-parse passes (template            *)
(* expansion, object naming, template cycle check, variable collection)    *)
(* are the steps of one state machine.                                     *)
(***************************************************************************)
EXTENDS Integers, Sequences, FiniteSets, TLC

VARIABLES
    templates,  \* Client.templates: template name -> DataTemplate
    options,    \* option_map of Client::parse: option name -> type
    apis,       \* Client.apis
    pc,         \* position inside Client::parse
    apiIx,      \* index of the api the running pass is at
    cur,        \* extend_templates: the template name the recursion is at
    depth,      \* extend_templates: number of live recursive calls
    unchecked,  \* cycle check: templates the HashMap iteration has not yielded
    callIx,     \* collect_and_check_vars: next collect() call of the walk
    result,     \* outcome of Client::parse: NoResult, "ok" or the error text
    limits,     \* IntLimits::try_parse: the clauses between the parentheses
    limIx,      \* IntLimits::try_parse: the clause the loop is at
    last_max,   \* IntLimits::try_parse: last_max
    limResult,  \* IntLimits::try_parse: NoResult, "ok" or the error text
    written,    \* the parts the url literal was written from
    literal,    \* ApiUri::parse: the value of the url literal, as characters
    uriRest,    \* uri: the input the parsers have not consumed (rest)
    upc,        \* position inside uri and parse_uri_and_update_api
    parsed,     \* uri: the ApiUri of the url parser
    apiUri,     \* parse_uri_and_update_api: the crate::ApiUri it fills (api)
    uriResult,  \* ApiUri::parse: NoResult, "ok" or the error text
    round,      \* 1 for the literal as written, 2 for its format string parsed again
    fieldSet,   \* the field-set being read: "options", "header", "query" or "body"
    config,     \* BracedConfig.fields of that field-set
    fldIx,      \* Client::parse: the field the loop over params.fields is at
    fldResult,  \* outcome of reading the field-set: NoResult, "ok" or the error text
    entries,    \* BracedConfig::parse: what is written between the braces
    entIx,      \* BracedConfig::parse: the entry the while loop is at
    bcFields,   \* BracedConfig::parse: fields
    bcRemoved,  \* BracedConfig::parse: removed_fields
    bcResult,   \* outcome of BracedConfig::parse: NoResult, "ok" or the error text
    bcKind,     \* "config" when BracedConfig::parse reads the braces, "object" when ObjectType::parse does
    astApis,    \* resolve_object_type_names: self.apis, with the object types of the sections
    astIx,      \* resolve_object_type_names: the api the loop is at
    structNames, \* the struct_name of every section and object type, in the order they are set
    astResult,  \* outcome of resolve_object_type_names: NoResult or "ok"
    decls,      \* Client::parse: the declarations of the client block, as written
    declIx,     \* Client::parse: the declaration the while loop is at
    clientName, \* Client.name
    hasOptions, \* Client.options is Some
    hasHooks    \* Client.hooks is Some

\* the state of the passes of Client::parse
passVars == <<templates, options, apis, pc, apiIx, cur, depth, unchecked, callIx, result>>
\* the state of IntLimits::try_parse
limitVars == <<limits, limIx, last_max, limResult>>
\* the state of the parsers of single items
\* the state of ApiUri::parse
uriVars == <<written, literal, uriRest, upc, parsed, apiUri, uriResult, round>>
\* the state of reading one field-set
fieldVars == <<fieldSet, config, fldIx, fldResult>>
\* the state of BracedConfig::parse
bracedVars == <<entries, entIx, bcFields, bcRemoved, bcResult, bcKind>>
\* the state of the parsers of the parts of a client block
\* the state of Client::resolve_object_type_names
namingVars == <<astApis, astIx, structNames, astResult>>
\* the state of the while loop of Client::parse
topVars == <<decls, declIx, clientName, hasOptions, hasHooks>>
blockVars == <<bracedVars, namingVars, topVars>>
parserVars == <<limitVars, uriVars, fieldVars, blockVars>>

vars == <<passVars, parserVars>>

----------------------------------------------------------------------------
(* Bounds of the model *)

\* number of templates in the registry
NTemplates == 2
\* largest number of endpoints of a client
MaxApis == 2
\* largest number of variable occurrences of one endpoint
MaxOccs == 2
\* largest number of fields of one field-set
MaxFields == 2

----------------------------------------------------------------------------
(* Type system: model.rs *)

NoType == [kind |-> "None", token |-> ""]
StringT == [kind |-> "String", token |-> "string"]
BoolT == [kind |-> "Bool", token |-> "bool"]
U64T == [kind |-> "Integer", token |-> "u64"]
U16T == [kind |-> "Integer", token |-> "u16"]
DatetimeT == [kind |-> "Datetime", token |-> "datetime"]
MapT == [kind |-> "Map", token |-> "object"]
ConstStringT == [kind |-> "Constant", token |-> "String"]
ConstIntT == [kind |-> "Constant", token |-> "Int"]

\* Type::is_string
is_string(t) ==
    \/ t.kind = "String"
    \/ t.kind = "Constant" /\ t.token = "String"

\* the kind of value a Constant holds, as a Type kind
ConstKind(t) ==
    CASE t.token = "String" -> "String"
      [] t.token = "Bool" -> "Bool"
      [] t.token = "Int" -> "Integer"
      [] t.token = "Float" -> "Float"
      [] OTHER -> "Other"

\* PartialEq for Type: integer tokens and limits are not compared
TypeEq(a, b) ==
    CASE a.kind = "Constant" /\ b.kind = "Constant" -> a.token = b.token
      [] a.kind = "Constant" -> ConstKind(a) = b.kind
      [] b.kind = "Constant" -> ConstKind(b) = a.kind
      [] OTHER -> a.kind = b.kind /\ a.kind \in {"String", "Bool", "Integer", "Float", "Datetime", "Map"}

----------------------------------------------------------------------------
(* Variables and the Variable Collector: parse.rs *)

NoErr == "none"
NoResult == "running"

\* Variable of model.rs
Variable(n, t, o) == [name |-> n, typ |-> t, client_option |-> o]

MinOf(S) == CHOOSE i \in S : \A j \in S : i <= j

\* the check VariableCollector::collect makes against the first entry of the same name
CollectCheck(variables, var, suggested_type) ==
    LET olds == {i \in DOMAIN variables : variables[i].name = var.name} IN
    IF olds = {} THEN NoErr
    ELSE LET old == variables[MinOf(olds)] IN
         IF old.typ # NoType
         THEN IF suggested_type # NoType
              THEN IF ~TypeEq(suggested_type, old.typ)
                   THEN "unmatched variable type" ELSE NoErr
              ELSE IF ~is_string(old.typ)
                   THEN "expect string type for the variable" ELSE NoErr
         ELSE IF suggested_type # NoType /\ ~is_string(suggested_type)
              THEN "expect string type (unmatched with previous variable type)"
              ELSE NoErr

\* VariableCollector::collect for Vec<Variable>
collect(variables, var, suggested_type) ==
    IF var.client_option
    THEN [err |-> NoErr, variables |-> variables]
    ELSE LET chk == CollectCheck(variables, var, suggested_type) IN
         IF chk # NoErr
         THEN [err |-> chk, variables |-> variables]
         ELSE [err |-> NoErr,
               variables |-> Append(variables,
                   [var EXCEPT !.typ = IF var.typ = NoType THEN suggested_type ELSE var.typ])]

\* the walk positions of Api::collect_and_check_vars, in the order of the code
Positions == <<"host", "port", "path", "uquery", "header", "query", "body">>
PosIx(p) == CHOOSE i \in DOMAIN Positions : Positions[i] = p

\* the type Expr::collect_vars suggests for the variable of an expression
SuggestedOf(kind, ftyp) ==
    CASE kind = "Variable" -> ftyp
      [] kind = "Or" -> ftyp
      [] kind = "Datetime" -> DatetimeT
      [] kind = "Timestamp" -> DatetimeT
      [] kind = "Json" -> MapT
      [] kind = "Format" -> StringT
      [] kind = "Join" -> StringT
      [] OTHER -> NoType

RECURSIVE SelectPos(_, _)
\* the occurrences of a site list that sit at one of the positions P
SelectPos(sites, P) ==
    IF sites = <<>> THEN <<>>
    ELSE IF Head(sites).pos \in P
         THEN <<Head(sites)>> \o SelectPos(Tail(sites), P)
         ELSE SelectPos(Tail(sites), P)

Call(v, s) == [var |-> v, suggested |-> s]

RECURSIVE MapCall(_, _)
MapCall(sites, useField) ==
    IF sites = <<>> THEN <<>>
    ELSE <<Call(Head(sites).var,
                IF useField THEN SuggestedOf(Head(sites).kind, Head(sites).ftyp) ELSE NoType)>>
         \o MapCall(Tail(sites), useField)

RECURSIVE MapPort(_)
MapPort(sites) ==
    IF sites = <<>> THEN <<>>
    ELSE <<Call(Head(sites).var, U16T)>> \o MapPort(Tail(sites))

\* ApiUri.uri_variables as parse_uri_and_update_api fills it: host, port, path
uri_variables(sites) == SelectPos(sites, {"host", "port", "path"})

\* ApiUri::collect_vars: the collect() calls it makes, in order
UriCalls(sites) ==
    MapCall(uri_variables(sites), FALSE)
    \o MapPort(SelectPos(sites, {"port"}))
    \o MapCall(SelectPos(sites, {"path"}), FALSE)
    \o MapCall(SelectPos(sites, {"uquery"}), FALSE)

\* ApiRequest::collect_vars: header, query, body (header fields have no type)
RequestCalls(sites) ==
    MapCall(SelectPos(sites, {"header"}), TRUE)
    \o MapCall(SelectPos(sites, {"query"}), TRUE)
    \o MapCall(SelectPos(sites, {"body"}), TRUE)

\* Calls with the request walked before the url
CallsRequestFirst(api) == RequestCalls(api.sites) \o UriCalls(api.sites)

\* the collect() calls of Api::collect_and_check_vars for one api
Calls(api) == UriCalls(api.sites) \o RequestCalls(api.sites)

RECURSIVE CheckOptionVars(_, _)
\* the loop over self.variables that closes Api::collect_and_check_vars
CheckOptionVars(variables, opts) ==
    IF variables = <<>> THEN [err |-> NoErr, variables |-> <<>>]
    ELSE LET var == Head(variables)
             here == IF ~var.client_option THEN [err |-> NoErr, var |-> var]
                     ELSE IF var.name \notin DOMAIN opts
                          THEN [err |-> "no such option", var |-> var]
                          ELSE IF var.typ # NoType
                               THEN [err |-> IF ~TypeEq(opts[var.name], var.typ)
                                             THEN "unmatched type with client option"
                                             ELSE NoErr,
                                     var |-> var]
                               ELSE [err |-> NoErr, var |-> [var EXCEPT !.typ = opts[var.name]]]
             rest == CheckOptionVars(Tail(variables), opts)
         IN IF here.err # NoErr THEN [err |-> here.err, variables |-> variables]
            ELSE IF rest.err # NoErr THEN [err |-> rest.err, variables |-> variables]
            ELSE [err |-> NoErr, variables |-> <<here.var>> \o rest.variables]

----------------------------------------------------------------------------
(* Templates: the registry, the expansion and the cycle check: parse.rs *)

\* Option<Ident>::None of DataTemplate.extend and ApiRequestData.extend
NoName == ""
TName(i) == "t" \o ToString(i)
\* the names of the templates of the registry
TNames == {TName(i) : i \in 1..NTemplates}
\* a name that no template of the registry has
MissingName == "missing"
ExtendNames == {NoName, MissingName} \cup TNames

Range(s) == {s[i] : i \in DOMAIN s}

\* Field of model.rs: declared key and type
Field(n, t) == [name |-> n, typ |-> t]

RECURSIVE MergeFieldsIgnoreRemoved(_, _, _)
\* MergeFields without the test of the removal set
MergeFieldsIgnoreRemoved(fields, removed_fields, tfields) ==
    IF tfields = <<>> THEN fields
    ELSE LET field == Head(tfields) IN
         IF \E i \in DOMAIN fields : fields[i].name = field.name
         THEN MergeFieldsIgnoreRemoved(fields, removed_fields, Tail(tfields))
         ELSE MergeFieldsIgnoreRemoved(Append(fields, field), removed_fields, Tail(tfields))

RECURSIVE MergeFieldsByType(_, _, _)
\* MergeFields looking for a present field of the same type, not of the same name
MergeFieldsByType(fields, removed_fields, tfields) ==
    IF tfields = <<>> THEN fields
    ELSE LET field == Head(tfields) IN
         IF field.name \in removed_fields
         THEN MergeFieldsByType(fields, removed_fields, Tail(tfields))
         ELSE IF \E i \in DOMAIN fields : fields[i].typ = field.typ
              THEN MergeFieldsByType(fields, removed_fields, Tail(tfields))
              ELSE MergeFieldsByType(Append(fields, field), removed_fields, Tail(tfields))

RECURSIVE MergeFields(_, _, _)
\* the for loop of BracedConfig::extend_templates over one template's fields
MergeFields(fields, removed_fields, tfields) ==
    IF tfields = <<>> THEN fields
    ELSE LET field == Head(tfields) IN
         IF field.name \in removed_fields
         THEN MergeFields(fields, removed_fields, Tail(tfields))
         ELSE IF \E i \in DOMAIN fields : fields[i].name = field.name
              THEN MergeFields(fields, removed_fields, Tail(tfields))
              ELSE MergeFields(Append(fields, field), removed_fields, Tail(tfields))

\* the call frames the stack holds: more than any chain without a cycle needs
StackFrames == NTemplates + 2

\* check_recycle_ref looking at the parent's existence only, without the walk
check_recycle_ref_no_walk(tpls, name, path) ==
    IF tpls[name].extend # NoName /\ tpls[name].extend \notin DOMAIN tpls
    THEN "no such template"
    ELSE "ok"

RECURSIVE check_recycle_ref(_, _, _)
\* DataTemplate::check_recycle_ref: "cycle" for Ok(true), "ok" for Ok(false)
check_recycle_ref(tpls, name, path) ==
    IF name \in Range(path) THEN "cycle"
    ELSE LET extend == tpls[name].extend IN
         IF extend # NoName
         THEN IF extend \in DOMAIN tpls
              THEN check_recycle_ref(tpls, extend, Append(path, extend))
              ELSE "no such template"
         ELSE "ok"

----------------------------------------------------------------------------
(* Client::parse after the top-level declarations have been read *)

\* Fail that records the error and lets Client::parse go on
FailAndGoOn(msg) ==
    /\ pc' = pc
    /\ result' = msg

\* `.to_err()?`: Client::parse returns the error
Fail(msg) ==
    /\ pc' = "error"
    /\ result' = msg

\* Api::extend_templates, called for each api by the first loop of the passes
ExtendApi ==
    /\ pc = "expand"
    /\ depth = 0
    /\ IF apiIx > Len(apis)
       THEN /\ pc' = "naming"
            /\ UNCHANGED <<apiIx, cur, depth>>
       ELSE IF apis[apiIx].extend = NoName
            THEN /\ apiIx' = apiIx + 1
                 /\ UNCHANGED <<pc, cur, depth>>
            ELSE /\ cur' = apis[apiIx].extend
                 /\ depth' = 1
                 /\ UNCHANGED <<pc, apiIx>>
    /\ UNCHANGED <<templates, options, apis, unchecked, callIx, result>>
    /\ UNCHANGED parserVars

\* one call of BracedConfig::extend_templates; the recursive call is the next step
ExtendTemplates ==
    /\ pc = "expand"
    /\ depth > 0
    /\ IF cur \in DOMAIN templates
       THEN /\ apis' = [apis EXCEPT ![apiIx].fields =
                           MergeFields(@, apis[apiIx].removed_fields, templates[cur].fields)]
            /\ IF templates[cur].extend # NoName
               THEN IF depth >= StackFrames
                    THEN /\ pc' = "overflow"
                         /\ UNCHANGED <<apiIx, cur, depth>>
                    ELSE /\ cur' = templates[cur].extend
                         /\ depth' = depth + 1
                         /\ UNCHANGED <<pc, apiIx>>
               ELSE /\ cur' = NoName
                    /\ depth' = 0
                    /\ apiIx' = apiIx + 1
                    /\ UNCHANGED pc
       ELSE /\ cur' = NoName
            /\ depth' = 0
            /\ apiIx' = apiIx + 1
            /\ UNCHANGED <<pc, apis>>
    /\ UNCHANGED <<templates, options, unchecked, callIx, result>>
    /\ UNCHANGED parserVars

\* Client::resolve_object_type_names, and the option map built after it
ResolveNames ==
    /\ pc = "naming"
    /\ pc' = "cycle"
    /\ unchecked' = DOMAIN templates
    /\ UNCHANGED <<templates, options, apis, apiIx, cur, depth, callIx, result>>
    /\ UNCHANGED parserVars

\* one iteration of the loop over client.templates.iter(): a HashMap yields
\* its entries in an order the program does not fix
CheckRecycle ==
    /\ pc = "cycle"
    /\ IF unchecked = {}
       THEN /\ pc' = "collect"
            /\ apiIx' = 1
            /\ callIx' = 1
            /\ UNCHANGED <<unchecked, result>>
       ELSE \E name \in unchecked :
                LET r == check_recycle_ref(templates, name, <<>>) IN
                IF r = "ok"
                THEN /\ unchecked' = unchecked \ {name}
                     /\ UNCHANGED <<pc, apiIx, callIx, result>>
                ELSE /\ Fail(IF r = "cycle" THEN "cannot extend template back to self" ELSE r)
                     /\ UNCHANGED <<unchecked, apiIx, callIx>>
    /\ UNCHANGED <<templates, options, apis, cur, depth>>
    /\ UNCHANGED parserVars

\* one collect() call of the walk of Api::collect_and_check_vars
CollectVar ==
    /\ pc = "collect"
    /\ apiIx <= Len(apis)
    /\ callIx <= Len(Calls(apis[apiIx]))
    /\ LET call == Calls(apis[apiIx])[callIx]
           r == collect(apis[apiIx].variables, call.var, call.suggested)
       IN IF r.err # NoErr
          THEN /\ Fail(r.err)
               /\ UNCHANGED <<apis, callIx>>
          ELSE /\ apis' = [apis EXCEPT ![apiIx].variables = r.variables]
               /\ callIx' = callIx + 1
               /\ UNCHANGED <<pc, result>>
    /\ UNCHANGED <<templates, options, apiIx, cur, depth, unchecked>>
    /\ UNCHANGED parserVars

\* BracedConfig::collect_vars: a field of the body without expression, and not
\* of a constant type, needs the variable after the body (outer_varname)
MissingInit(api) ==
    /\ ~api.data_var
    /\ \E i \in DOMAIN api.fields :
          ~api.fields[i].assigned /\ api.fields[i].typ.kind # "Constant"

\* the end of Api::collect_and_check_vars: the check that ends collect_vars of
\* the body, and the loop over self.variables
CheckOptions ==
    /\ pc = "collect"
    /\ apiIx <= Len(apis)
    /\ callIx > Len(Calls(apis[apiIx]))
    /\ LET r == CheckOptionVars(apis[apiIx].variables, options)
       IN IF MissingInit(apis[apiIx])
          THEN /\ Fail("missing variable to init fields")
               /\ UNCHANGED <<apis, apiIx, callIx>>
          ELSE IF r.err # NoErr
          THEN /\ Fail(r.err)
               /\ UNCHANGED <<apis, apiIx, callIx>>
          ELSE /\ apis' = [apis EXCEPT ![apiIx].variables = r.variables]
               /\ apiIx' = apiIx + 1
               /\ callIx' = 1
               /\ UNCHANGED <<pc, result>>
    /\ UNCHANGED <<templates, options, cur, depth, unchecked>>
    /\ UNCHANGED parserVars

\* Ok(client)
Finish ==
    /\ pc = "collect"
    /\ apiIx > Len(apis)
    /\ pc' = "done"
    /\ result' = "ok"
    /\ UNCHANGED <<templates, options, apis, apiIx, cur, depth, unchecked, callIx>>
    /\ UNCHANGED parserVars

----------------------------------------------------------------------------
(* The url grammar: url_parser of text_parsers.rs.  A literal is a sequence *)
(* of characters; a parser returns whether it matched, the input it left   *)
(* and the value it built.                                                 *)

Lower == {"a", "b", "c", "d", "e", "f", "g", "h", "i", "j", "k", "l", "m",
          "n", "o", "p", "q", "r", "s", "t", "u", "v", "w", "x", "y", "z"}
Upper == {"S"}
\* char::is_alpha, is_dec_digit, is_alphanum of nom's AsChar, on the characters of the model
Alpha == Lower \cup Upper
Digit == {"0", "1", "2", "3", "4", "5", "6", "7", "8", "9"}
AlphaNum == Alpha \cup Digit
\* char::is_whitespace
Space == {" "}

DigitVal(c) ==
    CASE c = "0" -> 0 [] c = "1" -> 1 [] c = "2" -> 2 [] c = "3" -> 3 [] c = "4" -> 4
      [] c = "5" -> 5 [] c = "6" -> 6 [] c = "7" -> 7 [] c = "8" -> 8 [] c = "9" -> 9

Matched(rest, val) == [ok |-> TRUE, rest |-> rest, val |-> val]
\* Err(nom::Err::Error(..))
NoMatch == [ok |-> FALSE, rest |-> <<>>, val |-> <<>>]

Take(s, n) == SubSeq(s, 1, n)
Drop(s, n) == SubSeq(s, n + 1, Len(s))

RECURSIVE PrefixLen(_, _)
\* the length of the longest prefix of s made of characters of P
PrefixLen(s, P) ==
    IF s = <<>> \/ Head(s) \notin P THEN 0 ELSE 1 + PrefixLen(Tail(s), P)

\* the first n characters of the input are read
Split(n, input) == Matched(Drop(input, n), Take(input, n))
Split1(n, input) == IF n = 0 THEN NoMatch ELSE Split(n, input)
Least(a, b) == IF a < b THEN a ELSE b

\* nom: tag
tag(t, input) ==
    IF Len(input) >= Len(t) /\ Take(input, Len(t)) = t THEN Split(Len(t), input) ELSE NoMatch

\* nom: take_while
take_while(P, input) == Split(PrefixLen(input, P), input)

\* nom: take_while1, alpha1, digit1, alphanumeric1, split_at_position1_complete
take_while1(P, input) == Split1(PrefixLen(input, P), input)

\* nom: many_m_n(1, m, one_of(P))
take_1_to_m(P, m, input) == Split1(Least(PrefixLen(input, P), m), input)

\* nom: alt of two parsers, on their results
alt(a, b) == IF a.ok THEN a ELSE b

\* nom: opt, on the result of the parser and the input it was given
opt(r, input, none) == IF r.ok THEN r ELSE Matched(input, none)

\* the value v, if q matched
Keep(v, q) == IF q.ok THEN Matched(q.rest, v) ELSE NoMatch

\* nom: terminated(.., tag(t)), on the result of the first parser
ThenTag(r, t) == IF r.ok THEN Keep(r.val, tag(t, r.rest)) ELSE NoMatch

\* take_while(|item| item.is_whitespace()) after r
ThenSpace(r) == IF r.ok THEN Keep(r.val, take_while(Space, r.rest)) ELSE NoMatch

RECURSIVE Decimal(_)
\* str::parse of a digit string, as a number
Decimal(digits) ==
    IF digits = <<>> THEN 0
    ELSE 10 * Decimal(Take(digits, Len(digits) - 1)) + DigitVal(digits[Len(digits)])

\* Var of the url parser
Var(name, typ, client_option) == [name |-> name, typ |-> typ, client_option |-> client_option]

\* the type names of variable_with_type, in the order of its alt
TypeTags ==
    <<[tag |-> <<"s", "t", "r", "i", "n", "g">>, typ |-> "string"],
       [tag |-> <<"s", "t", "r">>, typ |-> "string"],
       [tag |-> <<"S", "t", "r", "i", "n", "g">>, typ |-> "string"],
       [tag |-> <<"i", "n", "t">>, typ |-> "i64"],
       [tag |-> <<"i", "n", "t", "e", "g", "e", "r">>, typ |-> "i64"],
       [tag |-> <<"i", "6", "4">>, typ |-> "i64"],
       [tag |-> <<"u", "i", "n", "t">>, typ |-> "u64"],
       [tag |-> <<"u", "6", "4">>, typ |-> "u64"],
       [tag |-> <<"i", "8">>, typ |-> "i8"],
       [tag |-> <<"u", "8">>, typ |-> "u8"],
       [tag |-> <<"i", "1", "6">>, typ |-> "i16"],
       [tag |-> <<"u", "1", "6">>, typ |-> "u16"],
       [tag |-> <<"i", "3", "2">>, typ |-> "i32"],
       [tag |-> <<"u", "3", "2">>, typ |-> "u32"],
       [tag |-> <<"b", "o", "o", "l">>, typ |-> "bool"],
       [tag |-> <<"f", "l", "o", "a", "t">>, typ |-> "f64"],
       [tag |-> <<"f", "6", "4">>, typ |-> "f64"],
       [tag |-> <<"f", "3", "2">>, typ |-> "f32"]>>

RECURSIVE alt_type(_, _)
\* the alt over the type names: the first tag that matches
alt_type(k, input) ==
    IF k > Len(TypeTags) THEN NoMatch
    ELSE alt(Keep(TypeTags[k].typ, tag(TypeTags[k].tag, input)), alt_type(k + 1, input))

NameChars == AlphaNum \cup {"_"}

\* take_while1(|item| item.is_alphanum() || item == '_') after r
ThenName(r) == IF r.ok THEN take_while1(NameChars, r.rest) ELSE NoMatch

\* the Var of a name and the type read after it
TypedVar(name, t) == IF t.ok THEN Matched(t.rest, Var(name, t.val, FALSE)) ELSE NoMatch

\* opt(tag(":")) and, after a colon, the type name between whitespace
ColonType(name, colon, input) ==
    IF colon.ok
    THEN TypedVar(name, ThenSpace(alt_type(1, take_while(Space, colon.rest).rest)))
    ELSE Matched(input, Var(name, "", FALSE))

ThenOptType(r) == IF r.ok THEN ColonType(r.val, tag(<<":">>, r.rest), r.rest) ELSE NoMatch

\* ${ name [: type] }
variable_with_type(input) ==
    ThenTag(ThenOptType(ThenSpace(ThenName(ThenSpace(ThenTag(ThenSpace(tag(<<"$">>, input)), <<"{">>))))), <<"}">>)

AsVar(r, client_option) == IF r.ok THEN Matched(r.rest, Var(r.val, "", client_option)) ELSE NoMatch

\* variable: ${name: type}, $$name or $name
variable(input) ==
    alt(variable_with_type(input),
        alt(AsVar(ThenName(tag(<<"$", "$">>, input)), TRUE),
            AsVar(ThenName(tag(<<"$">>, input)), FALSE)))

\* Var::to_variable
to_variable(var) ==
    Variable(var.name,
             CASE var.typ = "" -> NoType
               [] var.typ = "string" -> StringT
               [] var.typ = "bool" -> BoolT
               [] var.typ \in {"f32", "f64"} -> [kind |-> "Float", token |-> var.typ]
               [] OTHER -> [kind |-> "Integer", token |-> var.typ],
             var.client_option)

\* HostSeg::Seg / HostSeg::Var, Segment::CodePoints / Segment::Variable
Seg(text) == [var |-> FALSE, text |-> text, v |-> Var(<<>>, "", FALSE)]
VarSeg(v) == [var |-> TRUE, text |-> <<>>, v |-> v]

AsSeg(r) == IF r.ok THEN Matched(r.rest, Seg(r.val)) ELSE NoMatch
AsVarSeg(r) == IF r.ok THEN Matched(r.rest, VarSeg(r.val)) ELSE NoMatch
AsList(r) == IF r.ok THEN Matched(r.rest, <<r.val>>) ELSE NoMatch
AppendTo(list, r) == IF r.ok THEN Matched(r.rest, Append(list, r.val)) ELSE NoMatch

\* the (user, Option<pass>) of authority
Auth(user, pass) ==
    IF pass.ok THEN Matched(pass.rest, [user |-> user.val, has_pass |-> TRUE, pass |-> pass.val])
    ELSE Matched(user.rest, [user |-> user.val, has_pass |-> FALSE, pass |-> <<>>])

\* separated_pair(alphanumeric1, opt(tag(":")), opt(alphanumeric1))
ThenPass(user) == IF user.ok THEN Auth(user, take_while1(AlphaNum, user.rest)) ELSE NoMatch
ThenOptColon(user) == IF user.ok THEN Keep(user.val, opt(tag(<<":">>, user.rest), user.rest, <<>>)) ELSE NoMatch

\* authority: user[:pass]@
authority(input) == ThenTag(ThenPass(ThenOptColon(take_while1(AlphaNum, input))), <<"@">>)

alphanumerichyphen1(input) == take_while1(AlphaNum \cup {"-"}, input)

host_seg(input) == alt(AsSeg(alphanumerichyphen1(input)), AsVarSeg(variable(input)))

RECURSIVE many_host_seg_dot(_, _)
RECURSIVE ManyHostSegs(_, _, _)
\* many1(terminated(host_seg, tag("."))): the segments read so far are acc
many_host_seg_dot(input, acc) == ManyHostSegs(ThenTag(host_seg(input), <<".">>), input, acc)
ManyHostSegs(r, input, acc) ==
    IF r.ok THEN many_host_seg_dot(r.rest, Append(acc, r.val))
    ELSE IF acc = <<>> THEN NoMatch ELSE Matched(input, acc)

\* alt((map(alpha1, HostSeg::Seg), map(variable, HostSeg::Var))) after the dotted segments
LastHostSeg(segs) ==
    IF segs.ok
    THEN AppendTo(segs.val, alt(AsSeg(take_while1(Alpha, segs.rest)), AsVarSeg(variable(segs.rest))))
    ELSE NoMatch

host(input) == alt(LastHostSeg(many_host_seg_dot(input, <<>>)), AsList(host_seg(input)))

\* result.parse::<u8>()
AsU8(r) == IF r.ok /\ Decimal(r.val) <= 255 THEN Matched(r.rest, Decimal(r.val)) ELSE NoMatch

\* ip_num: one to three digits that parse as a u8
ip_num(input) == AsU8(take_1_to_m(Digit, 3, input))

RECURSIVE count_ip_num_dot(_, _, _)
RECURSIVE CountIpNums(_, _, _)
\* count(terminated(ip_num, tag(".")), n)
count_ip_num_dot(n, input, acc) ==
    IF n = 0 THEN Matched(input, acc)
    ELSE CountIpNums(n, ThenTag(ip_num(input), <<".">>), acc)
CountIpNums(n, r, acc) ==
    IF r.ok THEN count_ip_num_dot(n - 1, r.rest, Append(acc, r.val)) ELSE NoMatch

LastIpNum(three) == IF three.ok THEN AppendTo(three.val, ip_num(three.rest)) ELSE NoMatch

ipv4(input) == LastIpNum(count_ip_num_dot(3, input, <<>>))

\* IpOrHost::Ip / IpOrHost::Host
AsIp(r) == IF r.ok THEN Matched(r.rest, [is_ip |-> TRUE, ip |-> r.val, segs |-> <<>>]) ELSE NoMatch
AsHost(r) == IF r.ok THEN Matched(r.rest, [is_ip |-> FALSE, ip |-> <<>>, segs |-> r.val]) ELSE NoMatch

ip_or_host(input) == alt(AsIp(ipv4(input)), AsHost(host(input)))

\* the largest u16
U16Max == 65535

\* map_res(digit1, |s| s.parse().map(PortOrVar::Port)) / PortOrVar::Var
AsPort(r) ==
    IF r.ok /\ Decimal(r.val) <= U16Max
    THEN Matched(r.rest, [is_var |-> FALSE, port |-> Decimal(r.val), v |-> Var(<<>>, "", FALSE)])
    ELSE NoMatch
AsPortVar(r) == IF r.ok THEN Matched(r.rest, [is_var |-> TRUE, port |-> 0, v |-> r.val]) ELSE NoMatch

port_or_var(input) == alt(AsPort(take_while1(Digit, input)), AsPortVar(variable(input)))

\* preceded(tag(":"), port_or_var)
ColonPort(colon) == IF colon.ok THEN port_or_var(colon.rest) ELSE NoMatch

code_points(input) == take_while1(AlphaNum \cup {"-", "."}, input)

path_segment(input) == alt(AsSeg(code_points(input)), AsVarSeg(variable(input)))

RECURSIVE many_path_segment_slash(_, _)
RECURSIVE ManyPathSegs(_, _, _)
\* many0(terminated(path_segment, tag("/")))
many_path_segment_slash(input, acc) == ManyPathSegs(ThenTag(path_segment(input), <<"/">>), input, acc)
ManyPathSegs(r, input, acc) ==
    IF r.ok THEN many_path_segment_slash(r.rest, Append(acc, r.val)) ELSE Matched(input, acc)

NoPath == [some |-> FALSE, segments |-> <<>>, last_slash |-> FALSE]

\* the UrlPath of the segments and of opt(path_segment)
UrlPath(segs, last) ==
    IF last.ok
    THEN Matched(last.rest, [some |-> TRUE, segments |-> Append(segs.val, last.val), last_slash |-> FALSE])
    ELSE Matched(segs.rest, [some |-> TRUE, segments |-> segs.val, last_slash |-> TRUE])

OptLastSegment(segs) == UrlPath(segs, path_segment(segs.rest))

AfterSlash(slash, input) ==
    IF slash.ok THEN OptLastSegment(many_path_segment_slash(slash.rest, <<>>))
    ELSE Matched(input, NoPath)

\* path: Option<UrlPath>; the parser itself never fails
path(input) == AfterSlash(tag(<<"/">>, input), input)

\* Param: a name and an optional value
Param(name, value) ==
    IF value.ok
    THEN Matched(value.rest, [name |-> name.val, has_value |-> TRUE, value |-> value.val])
    ELSE Matched(name.rest, [name |-> name.val, has_value |-> FALSE, value |-> Seg(<<>>)])

\* preceded(tag("="), path_segment)
EqValue(eq) == IF eq.ok THEN path_segment(eq.rest) ELSE NoMatch
ThenOptValue(name) == IF name.ok THEN Param(name, EqValue(tag(<<"=">>, name.rest))) ELSE NoMatch
ThenCodePoints(r) == IF r.ok THEN code_points(r.rest) ELSE NoMatch

\* param: preceded(tag("&"), tuple((code_points, opt(preceded(tag("="), path_segment)))))
param(input) == ThenOptValue(ThenCodePoints(tag(<<"&">>, input)))

ThenParam(amp) == IF amp.ok THEN param(amp.rest) ELSE NoMatch

RECURSIVE many_amp_param(_, _)
RECURSIVE ManyParams(_, _, _)
\* many0(preceded(tag("&"), param))
many_amp_param(input, acc) == ManyParams(ThenParam(tag(<<"&">>, input)), input, acc)
ManyParams(r, input, acc) ==
    IF r.ok THEN many_amp_param(r.rest, Append(acc, r.val)) ELSE Matched(input, acc)

NoQuery == [some |-> FALSE, params |-> <<>>]

AsQuery(r) == Matched(r.rest, [some |-> TRUE, params |-> r.val])

\* opt(tuple((param, many0(preceded(tag("&"), param))))), flattened
OptParams(first, input) ==
    IF first.ok THEN AsQuery(many_amp_param(first.rest, <<first.val>>))
    ELSE Matched(input, NoQuery)

AfterMark(mark, input) ==
    IF mark.ok THEN OptParams(param(mark.rest), mark.rest) ELSE Matched(input, NoQuery)

\* query: Option<UrlQuery>; the parser itself never fails
query(input) == AfterMark(tag(<<"?">>, input), input)

NoText == [some |-> FALSE, text |-> <<>>]
AsText(r) == IF r.ok THEN Matched(r.rest, [some |-> TRUE, text |-> r.val]) ELSE NoMatch

\* opt(preceded(tag("#"), code_points))
fragment(input) == opt(AsText(ThenCodePoints(tag(<<"#">>, input))), input, NoText)

\* terminated(tag("https"), tag("://")) / terminated(tag("http"), tag("://"))
https(input) == AsText(ThenTag(tag(<<"h", "t", "t", "p", "s">>, input), <<":", "/", "/">>))
http(input) == AsText(ThenTag(tag(<<"h", "t", "t", "p">>, input), <<":", "/", "/">>))

\* opt(alt((https, http)))
schema(input) == opt(alt(https(input), http(input)), input, NoText)

----------------------------------------------------------------------------
(* ApiUri::parse: uri and parse_uri_and_update_api of text_parsers.rs *)

\* the ApiUri of the url parser before any part is read
NoParts ==
    [schema |-> [some |-> FALSE, text |-> <<>>],
     auth |-> [some |-> FALSE, user |-> <<>>, has_pass |-> FALSE, pass |-> <<>>],
     host |-> [some |-> FALSE, is_ip |-> FALSE, ip |-> <<>>, segs |-> <<>>],
     port |-> [some |-> FALSE, is_var |-> FALSE, port |-> 0, v |-> Var(<<>>, "", FALSE)],
     path |-> [some |-> FALSE, segments |-> <<>>, last_slash |-> FALSE],
     query |-> [some |-> FALSE, params |-> <<>>],
     fragment |-> [some |-> FALSE, text |-> <<>>]]

\* the crate::ApiUri as ApiUri::parse builds it around the literal
NewApiUri(lit) ==
    [uri_format |-> lit,
     uri_variables |-> <<>>,
     schema |-> [some |-> FALSE, text |-> <<>>],
     user |-> [some |-> FALSE, text |-> <<>>],
     passwd |-> [some |-> FALSE, text |-> <<>>],
     port |-> [some |-> FALSE, port |-> 0],
     port_var |-> <<>>,
     uri_path |-> [some |-> FALSE, segments |-> <<>>, last_slash |-> FALSE],
     uri_query |-> [some |-> FALSE, fields |-> <<>>],
     fragment |-> [some |-> FALSE, text |-> <<>>]]

DigitChars == <<"0", "1", "2", "3", "4", "5", "6", "7", "8", "9">>

RECURSIVE NumToChars(_)
\* format!("{n}") of an unsigned number
NumToChars(n) ==
    IF n < 10 THEN <<DigitChars[n + 1]>>
    ELSE Append(NumToChars(n \div 10), DigitChars[(n % 10) + 1])

Placeholder == <<"{", "}">>

RECURSIVE JoinDot(_)
\* .collect::<Vec<_>>().join(".")
JoinDot(texts) ==
    IF texts = <<>> THEN <<>>
    ELSE IF Len(texts) = 1 THEN texts[1]
         ELSE texts[1] \o <<".">> \o JoinDot(Tail(texts))

\* Ipv4Addr: is_benchmarking, is_broadcast, is_documentation, is_link_local,
\* is_multicast, is_reserved, is_shared
UnsupportedIp(ip) ==
    \/ ip[1] = 198 /\ ip[2] \in {18, 19}
    \/ ip = <<255, 255, 255, 255>>
    \/ Take(ip, 3) \in {<<192, 0, 2>>, <<198, 51, 100>>, <<203, 0, 113>>}
    \/ ip[1] = 169 /\ ip[2] = 254
    \/ ip[1] \in 224..239
    \/ ip[1] \in 240..255 /\ ip # <<255, 255, 255, 255>>
    \/ ip[1] = 100 /\ ip[2] \in 64..127

\* the host part of the format string
HostFormat(h) ==
    IF h.is_ip THEN JoinDot([i \in 1..4 |-> NumToChars(h.ip[i])])
    ELSE JoinDot([i \in DOMAIN h.segs |-> IF h.segs[i].var THEN Placeholder ELSE h.segs[i].text])

RECURSIVE VarsOfSegs(_)
\* the variables of a list of segments, in order
VarsOfSegs(segs) ==
    IF segs = <<>> THEN <<>>
    ELSE (IF Head(segs).var THEN <<to_variable(Head(segs).v)>> ELSE <<>>) \o VarsOfSegs(Tail(segs))

ends_with_slash(f) == f # <<>> /\ f[Len(f)] = "/"

RECURSIVE PathFormat(_, _)
\* the closure over the segments of the path: a "/" unless the format string
\* ends with one, then the segment or a placeholder
PathFormat(f, segs) ==
    IF segs = <<>> THEN f
    ELSE PathFormat((IF ends_with_slash(f) THEN f ELSE Append(f, "/"))
                        \o (IF Head(segs).var THEN Placeholder ELSE Head(segs).text),
                    Tail(segs))

\* the Field a query param becomes: a constant, a variable or no expression
QueryField(par) ==
    [name |-> par.name,
     expr |-> IF ~par.has_value THEN "None"
              ELSE IF par.value.var THEN "Variable" ELSE "Constant",
     text |-> IF par.has_value THEN par.value.text ELSE <<>>,
     v |-> IF par.has_value /\ par.value.var THEN to_variable(par.value.v) ELSE Variable(<<>>, NoType, FALSE)]

\* parse_uri_and_update_api after uri has returned Ok: the fields of the api
UpdatedApi(a, p) ==
    LET f1 == IF p.schema.some THEN p.schema.text \o <<":", "/", "/">> ELSE <<>>
        f2 == IF p.host.some THEN f1 \o HostFormat(p.host) ELSE f1
        v2 == IF p.host.some /\ ~p.host.is_ip THEN VarsOfSegs(p.host.segs) ELSE a.uri_variables
        f3 == IF ~p.port.some THEN f2
              ELSE f2 \o <<":">> \o (IF p.port.is_var THEN Placeholder ELSE NumToChars(p.port.port))
        v3 == IF p.port.some /\ p.port.is_var THEN Append(v2, to_variable(p.port.v)) ELSE v2
        f4 == IF ~p.path.some THEN f3
              ELSE LET f == PathFormat(f3, p.path.segments)
                   IN IF p.path.last_slash /\ ~ends_with_slash(f) THEN Append(f, "/") ELSE f
        v4 == IF p.path.some THEN v3 \o VarsOfSegs(p.path.segments) ELSE v3
    IN [uri_format |-> f4,
        uri_variables |-> v4,
        schema |-> p.schema,
        user |-> [some |-> p.auth.some, text |-> p.auth.user],
        passwd |-> [some |-> p.auth.some /\ p.auth.has_pass, text |-> p.auth.pass],
        port |-> [some |-> p.port.some /\ ~p.port.is_var, port |-> p.port.port],
        port_var |-> IF p.port.some /\ p.port.is_var THEN <<to_variable(p.port.v)>> ELSE <<>>,
        uri_path |-> p.path,
        uri_query |-> [some |-> p.query.some,
                       fields |-> [i \in DOMAIN p.query.params |-> QueryField(p.query.params[i])]],
        fragment |-> p.fragment]

\* Some(value) of an Option of the ApiUri of the url parser
AsSome(r) == IF r.ok THEN Matched(r.rest, [some |-> TRUE] @@ r.val) ELSE NoMatch

\* one parser of uri has read its part
Advance(part, r, next) ==
    /\ parsed' = [parsed EXCEPT ![part] = r.val]
    /\ uriRest' = r.rest
    /\ upc' = next
    /\ UNCHANGED <<written, literal, apiUri, uriResult, round, passVars, limitVars, fieldVars, blockVars>>

UriSchema ==
    /\ upc = "schema"
    /\ LET r == schema(uriRest)
       IN Advance("schema", r, IF r.val.some THEN "authority" ELSE "path")

\* opt(authority)
UriAuthority ==
    /\ upc = "authority"
    /\ Advance("auth", opt(AsSome(authority(uriRest)), uriRest, NoParts.auth), "host")

\* ip_or_host(rest)?, and the map_err of parse_uri_and_update_api
UriHost ==
    /\ upc = "host"
    /\ LET r == AsSome(ip_or_host(uriRest))
       IN IF r.ok
          THEN Advance("host", r, "port")
          ELSE /\ uriResult' = "bad url"
               /\ upc' = "error"
               /\ UNCHANGED <<written, literal, uriRest, parsed, apiUri, round, passVars, limitVars, fieldVars, blockVars>>

\* opt(preceded(tag(":"), port_or_var))
UriPort ==
    /\ upc = "port"
    /\ Advance("port", opt(AsSome(ColonPort(tag(<<":">>, uriRest))), uriRest, NoParts.port), "path")

UriPath ==
    /\ upc = "path"
    /\ Advance("path", path(uriRest), "query")

UriQuery ==
    /\ upc = "query"
    /\ Advance("query", query(uriRest), "fragment")

UriFragment ==
    /\ upc = "fragment"
    /\ Advance("fragment", fragment(uriRest), "update")

\* the body of parse_uri_and_update_api after uri has returned Ok((_, ApiUri))
UpdateApi ==
    /\ upc = "update"
    /\ IF parsed.host.some /\ parsed.host.is_ip /\ UnsupportedIp(parsed.host.ip)
       THEN /\ uriResult' = "unsupported ip address"
            /\ upc' = "error"
            /\ UNCHANGED apiUri
       ELSE /\ apiUri' = UpdatedApi(apiUri, parsed)
            /\ uriResult' = "ok"
            /\ upc' = "done"
    /\ UNCHANGED <<written, literal, uriRest, parsed, round, passVars, limitVars, fieldVars, blockVars>>

\* ApiUri::parse on the format string the first parse has produced
ParseAgain ==
    /\ upc = "done"
    /\ round = 1
    /\ round' = 2
    /\ literal' = apiUri.uri_format
    /\ uriRest' = apiUri.uri_format
    /\ upc' = "schema"
    /\ parsed' = NoParts
    /\ apiUri' = NewApiUri(apiUri.uri_format)
    /\ uriResult' = NoResult
    /\ UNCHANGED <<written, passVars, limitVars, fieldVars, blockVars>>

\* no url literal is being parsed
UriIdle ==
    /\ written = <<>>
    /\ literal = <<>>
    /\ uriRest = <<>>
    /\ upc = "done"
    /\ parsed = NoParts
    /\ apiUri = NewApiUri(<<>>)
    /\ uriResult = "ok"
    /\ round = 2

----------------------------------------------------------------------------
(* Field-sets: BracedConfig::parse and the checks of the fields *)

\* types of fields that the url and the variables do not need
U32T == [kind |-> "Integer", token |-> "u32"]
FloatT == [kind |-> "Float", token |-> "float"]
ObjectT == [kind |-> "Object", token |-> "{"]

\* Option<Expr> of a field: no assignment, or the expression
NoExpr == [kind |-> "NoExpr", c |-> "None"]
\* Expr::Constant with a literal of kind c
ConstantExpr(c) == [kind |-> "Constant", c |-> c]
\* Expr::Or: a variable with a default literal of kind c
OrExpr(c) == [kind |-> "Or", c |-> c]
\* the expressions without a literal: Variable, Json, Datetime, Format, Join, Timestamp
OtherExpr(kind) == [kind |-> kind, c |-> "None"]

\* IntegerType::is_u64
is_u64(t) == t.token \in {"uint", "u64"}

is_type_and_constant_match(t, c) ==
    \/ t.kind = "String" /\ c = "String"
    \/ t.kind = "Integer" /\ c = "Int"
    \/ t.kind = "Float" /\ c = "Float"
    \/ t.kind = "Bool" /\ c = "Bool"

is_type_and_value_match(t, x) ==
    IF t.kind = "String" /\ x.kind \in {"Json", "Datetime", "Format", "Join"} THEN TRUE
    ELSE IF t.kind = "Integer" /\ x.kind = "Timestamp" THEN is_u64(t)
    ELSE IF x.kind \in {"Constant", "Or"} THEN is_type_and_constant_match(t, x.c)
    ELSE FALSE

\* Field::requires_to_simple_type returns Ok
requires_to_simple_type(f) == f.typ.kind \notin {"Object", "Map"}

\* Field::check_constant_expr_with_type returns Ok
check_constant_expr_with_type(f) ==
    (f.typ # NoType /\ f.expr # NoExpr) => is_type_and_value_match(f.typ, f.expr)

\* Client::parse, `params` / `options`: one iteration of the loop over params.fields
CheckOptionField ==
    /\ fieldSet = "options"
    /\ fldResult = NoResult
    /\ fldIx <= Len(config)
    /\ IF ~requires_to_simple_type(config[fldIx])
       THEN fldResult' = "unsupported type" /\ UNCHANGED fldIx
       ELSE IF ~check_constant_expr_with_type(config[fldIx])
       THEN fldResult' = "unmatch type with value" /\ UNCHANGED fldIx
       ELSE fldIx' = fldIx + 1 /\ UNCHANGED fldResult
    /\ UNCHANGED <<fieldSet, config, passVars, limitVars, uriVars, blockVars>>

\* client.options = Some(params)
StoreOptions ==
    /\ fieldSet = "options"
    /\ fldResult = NoResult
    /\ fldIx > Len(config)
    /\ fldResult' = "ok"
    /\ UNCHANGED <<fieldSet, config, fldIx, passVars, limitVars, uriVars, blockVars>>

\* ApiRequest::parse and ApiRequestData::try_parse: the BracedConfig is stored as read
StoreRequestFields ==
    /\ fieldSet \in {"header", "query", "body"}
    /\ fldResult = NoResult
    /\ fldIx' = Len(config) + 1
    /\ fldResult' = "ok"
    /\ UNCHANGED <<fieldSet, config, passVars, limitVars, uriVars, blockVars>>

\* no field-set is being read
FieldsIdle ==
    /\ fieldSet = "options"
    /\ config = <<>>
    /\ fldIx = 1
    /\ fldResult = "ok"

----------------------------------------------------------------------------
(* Field::parse and BracedConfig::parse: parse.rs *)

\* the declared keys, as characters
UpperCase == {"F", "B"}
ToLower(c) == IF c = "F" THEN "f" ELSE IF c = "B" THEN "b" ELSE c

RECURSIVE SnakeFrom(_, _)
\* Case::Snake: a capital after a small letter starts a word, words are joined by `_`
SnakeFrom(s, i) ==
    IF i > Len(s) THEN <<>>
    ELSE (IF s[i] \in UpperCase /\ i > 1 /\ s[i - 1] \notin UpperCase \cup {"_"}
          THEN <<"_", ToLower(s[i])>>
          ELSE <<ToLower(s[i])>>) \o SnakeFrom(s, i + 1)

to_ident_with_case_snake(name) == SnakeFrom(name, 1)

\* is_keyword, on the keywords the keys of the model can give
is_keyword(ident) == ident \in {<<"t", "y", "p", "e">>, <<"f", "n">>}

\* Option<Ident>::None of Field.alias
NoAlias == <<>>

\* field_name of Field::parse, when the alias is not a keyword
FieldName(name, alias) ==
    LET field_name == IF alias # NoAlias THEN alias ELSE to_ident_with_case_snake(name) IN
    IF field_name = <<"t", "y", "p", "e">> THEN <<"t", "y", "p">>
    ELSE IF is_keyword(field_name) THEN field_name \o <<"_">>
    ELSE field_name

\* Option<syn::Expr> of Field.default: no default, the path `None`, or a literal
NoDefault == [kind |-> "NoDefault", c |-> "None"]
NonePath == [kind |-> "NonePath", c |-> "None"]
LiteralValue(c) == [kind |-> "Literal", c |-> c]

\* default of Field::parse
DefaultOf(optional, typ, expr) ==
    IF optional THEN NonePath
    ELSE IF typ.kind = "Constant" THEN LiteralValue(typ.token)
    ELSE IF expr.kind = "Constant" THEN LiteralValue(expr.c)
    ELSE NoDefault

\* Ok(Self { .. }) of Field::parse
ParsedField(e) ==
    [name |-> e.name, field_name |-> FieldName(e.name, e.alias), optional |-> e.optional,
     typ |-> e.typ, alias |-> e.alias, expr |-> e.expr,
     default |-> DefaultOf(e.optional, e.typ, e.expr)]

\* Field::parse returns Err: a removal that names the key alone has no type to
\* read, and an alias must not be a keyword
FieldParseErr(e) == e.bare \/ (e.alias # NoAlias /\ is_keyword(e.alias))

\* one iteration of the while loop of BracedConfig::parse
ParseEntry ==
    /\ bcKind = "config"
    /\ bcResult = NoResult
    /\ entIx <= Len(entries)
    /\ LET e == entries[entIx]
           field == ParsedField(e)
           duplicated == \E i \in DOMAIN bcFields : bcFields[i].field_name = field.field_name
       IN IF e.removal
          THEN IF FieldParseErr(e)
               THEN /\ bcRemoved' = bcRemoved \cup {e.name}
                    /\ entIx' = entIx + 1
                    /\ UNCHANGED <<bcFields, bcResult>>
               ELSE IF duplicated
               THEN /\ bcResult' = "duplicated field"
                    /\ UNCHANGED <<entIx, bcFields, bcRemoved>>
               ELSE /\ bcRemoved' = bcRemoved \cup {field.name}
                    /\ entIx' = entIx + 1
                    /\ UNCHANGED <<bcFields, bcResult>>
          ELSE IF FieldParseErr(e)
               THEN /\ bcResult' = "alias name is reserved for rust language"
                    /\ UNCHANGED <<entIx, bcFields, bcRemoved>>
               ELSE IF duplicated
               THEN /\ bcResult' = "duplicated field"
                    /\ UNCHANGED <<entIx, bcFields, bcRemoved>>
               ELSE /\ bcFields' = Append(bcFields, field)
                    /\ entIx' = entIx + 1
                    /\ UNCHANGED <<bcRemoved, bcResult>>
    /\ UNCHANGED <<entries, bcKind, namingVars, topVars, passVars, limitVars, uriVars, fieldVars>>

\* one iteration of the while loop of ObjectType::parse
ParseObjectField ==
    /\ bcKind = "object"
    /\ bcResult = NoResult
    /\ entIx <= Len(entries)
    /\ LET e == entries[entIx]
           field == ParsedField(e)
       IN IF FieldParseErr(e)
          THEN /\ bcResult' = "alias name is reserved for rust language"
               /\ UNCHANGED <<entIx, bcFields>>
          ELSE IF \E i \in DOMAIN bcFields : bcFields[i].name = field.name
          THEN /\ bcResult' = "duplicated field"
               /\ UNCHANGED <<entIx, bcFields>>
          ELSE /\ bcFields' = Append(bcFields, field)
               /\ entIx' = entIx + 1
               /\ UNCHANGED bcResult
    /\ UNCHANGED <<entries, bcRemoved, bcKind, namingVars, topVars, passVars, limitVars, uriVars, fieldVars>>

\* Ok(Self { .. }) of BracedConfig::parse and of ObjectType::parse
BracedOk ==
    /\ bcResult = NoResult
    /\ entIx > Len(entries)
    /\ bcResult' = "ok"
    /\ UNCHANGED <<entries, entIx, bcFields, bcRemoved, bcKind, namingVars, topVars, passVars, limitVars, uriVars, fieldVars>>

\* no field-set is being parsed
BracedIdle ==
    /\ entries = <<>>
    /\ entIx = 1
    /\ bcFields = <<>>
    /\ bcRemoved = {}
    /\ bcResult = "ok"
    /\ bcKind = "config"

----------------------------------------------------------------------------
(* Object naming: Client::resolve_object_type_names of parse.rs *)

Capital(c) ==
    CASE c = "a" -> "A" [] c = "b" -> "B" [] c = "c" -> "C"
      [] c = "x" -> "X" [] c = "y" -> "Y" [] OTHER -> c

RECURSIVE UpperCamelFrom(_, _)
\* Case::UpperCamel of a snake-case identifier: every word starts with a
\* capital and the `_` between the words is dropped
UpperCamelFrom(s, i) ==
    IF i > Len(s) THEN <<>>
    ELSE IF s[i] = "_" THEN UpperCamelFrom(s, i + 1)
    ELSE (IF i = 1 \/ s[i - 1] = "_" THEN <<Capital(s[i])>> ELSE <<s[i]>>)
         \o UpperCamelFrom(s, i + 1)

to_ident_with_case_upper_camel(name) == UpperCamelFrom(name, 1)

with_prefix(ident, prefix) == prefix \o ident
with_suffix(ident, suffix) == ident \o suffix

\* a field of a section or of an object type: a plain type, or Type::Object with its fields
PlainField(field_name) == [field_name |-> field_name, object |-> FALSE, fields |-> <<>>]
ObjectField(field_name, fields) == [field_name |-> field_name, object |-> TRUE, fields |-> fields]

RequestData == <<"R", "e", "q", "u", "e", "s", "t", "D", "a", "t", "a">>
Query == <<"Q", "u", "e", "r", "y">>

RECURSIVE resolve_fields(_, _, _)
RECURSIVE resolve_field_type(_, _)
RECURSIVE resolve_type_name(_, _)

\* the loop `for field in fields { field.resolve_field_type(prefix) }` from field i
\* on: the names it sets, in order
resolve_fields(fields, i, prefix) ==
    IF i > Len(fields) THEN <<>>
    ELSE resolve_field_type(fields[i], prefix) \o resolve_fields(fields, i + 1, prefix)

\* Field::resolve_field_type
resolve_field_type(field, prefix) ==
    IF field.object
    THEN resolve_type_name(field.fields,
                           with_prefix(to_ident_with_case_upper_camel(field.field_name), prefix))
    ELSE <<>>

\* ObjectType::resolve_type_name, with struct_name already put together
resolve_type_name(fields, struct_name) == <<struct_name>> \o resolve_fields(fields, 1, struct_name)

\* BracedConfig::resolve_types
resolve_types(fields, name) == <<name>> \o resolve_fields(fields, 1, name)

\* one iteration of the loop over self.apis of resolve_object_type_names
ResolveApi ==
    /\ astResult = NoResult
    /\ astIx <= Len(astApis)
    /\ LET api == astApis[astIx]
           prefix == to_ident_with_case_upper_camel(api.name)
       IN structNames' = structNames
              \o resolve_types(api.data, with_suffix(prefix, RequestData))
              \o (IF api.has_query THEN resolve_types(<<>>, with_suffix(prefix, Query)) ELSE <<>>)
    /\ astIx' = astIx + 1
    /\ UNCHANGED <<astApis, astResult, bracedVars, topVars, passVars, limitVars, uriVars, fieldVars>>

\* Ok(())
ResolveOk ==
    /\ astResult = NoResult
    /\ astIx > Len(astApis)
    /\ astResult' = "ok"
    /\ UNCHANGED <<astApis, astIx, structNames, bracedVars, topVars, passVars, limitVars, uriVars, fieldVars>>

\* no client is being named
NamingIdle ==
    /\ astApis = <<>>
    /\ astIx = 1
    /\ structNames = <<>>
    /\ astResult = "ok"

----------------------------------------------------------------------------
(* The while loop of Client::parse over the declarations of the block *)

\* name.to_string().is_case(Case::UpperCamel) and is_case(Case::Snake)
is_case_upper_camel(name) == to_ident_with_case_upper_camel(name) = name
is_case_snake(name) == to_ident_with_case_snake(name) = name

\* Client.name before a `name` declaration is read: Ident::new("_", whole_span)
NoClientName == <<"_">>

\* the first field of the options that fails a check, 0 if there is none
FirstBadOption(fields) ==
    LET bad == {i \in DOMAIN fields : ~requires_to_simple_type(fields[i])
                                        \/ ~check_constant_expr_with_type(fields[i])}
    IN IF bad = {} THEN 0 ELSE MinOf(bad)

\* option_map of Client::parse: field_name -> typ of the fields of the options
OptionMapOf(fields) ==
    [n \in {fields[i].name : i \in DOMAIN fields} |->
        fields[MinOf({i \in DOMAIN fields : fields[i].name = n})].typ]

\* client.templates.insert(template.name.clone(), template)
InsertTemplate(tpls, name, tpl) ==
    [n \in DOMAIN tpls \cup {name} |-> IF n = name THEN tpl ELSE tpls[n]]

\* one iteration of the while loop of Client::parse
ParseDecl ==
    /\ pc = "parse"
    /\ declIx <= Len(decls)
    /\ LET d == decls[declIx] IN
       CASE d.kind = "api" ->
              IF ~is_case_snake(d.name)
              THEN /\ Fail("method for client expects normal snake-case name")
                   /\ UNCHANGED <<declIx, apis, templates, options, clientName, hasOptions, hasHooks>>
              ELSE /\ apis' = Append(apis, d.api)
                   /\ declIx' = declIx + 1
                   /\ UNCHANGED <<pc, result, templates, options, clientName, hasOptions, hasHooks>>
         [] d.kind = "name" ->
              IF ~is_case_upper_camel(d.name)
              THEN /\ Fail("expect 'UpperCamel' case name")
                   /\ UNCHANGED <<declIx, apis, templates, options, clientName, hasOptions, hasHooks>>
              ELSE /\ clientName' = d.name
                   /\ declIx' = declIx + 1
                   /\ UNCHANGED <<pc, result, apis, templates, options, hasOptions, hasHooks>>
         [] d.kind = "options" ->
              IF hasOptions
              THEN /\ Fail("duplicated client params(options) config")
                   /\ UNCHANGED <<declIx, apis, templates, options, clientName, hasOptions, hasHooks>>
              ELSE IF FirstBadOption(d.fields) # 0
              THEN /\ Fail(IF ~requires_to_simple_type(d.fields[FirstBadOption(d.fields)])
                           THEN "unsupported type" ELSE "unmatch type with value")
                   /\ UNCHANGED <<declIx, apis, templates, options, clientName, hasOptions, hasHooks>>
              ELSE /\ hasOptions' = TRUE
                   /\ options' = OptionMapOf(d.fields)
                   /\ declIx' = declIx + 1
                   /\ UNCHANGED <<pc, result, apis, templates, clientName, hasHooks>>
         [] d.kind = "template" ->
              IF d.name \in DOMAIN templates
              THEN /\ Fail("duplicated object template")
                   /\ UNCHANGED <<declIx, apis, templates, options, clientName, hasOptions, hasHooks>>
              ELSE /\ templates' = InsertTemplate(templates, d.name, d.template)
                   /\ declIx' = declIx + 1
                   /\ UNCHANGED <<pc, result, apis, options, clientName, hasOptions, hasHooks>>
         [] d.kind = "hooks" ->
              IF hasHooks
              THEN /\ Fail("duplicated hooks config")
                   /\ UNCHANGED <<declIx, apis, templates, options, clientName, hasOptions, hasHooks>>
              ELSE /\ hasHooks' = TRUE
                   /\ declIx' = declIx + 1
                   /\ UNCHANGED <<pc, result, apis, templates, options, clientName, hasOptions>>
         [] OTHER ->
              /\ Fail("unexpect config field")
              /\ UNCHANGED <<declIx, apis, templates, options, clientName, hasOptions, hasHooks>>
    /\ UNCHANGED <<decls, apiIx, cur, depth, unchecked, callIx>>
    /\ UNCHANGED <<limitVars, uriVars, fieldVars, bracedVars, namingVars>>

\* the input is empty: the loop ends and the passes begin
ParseEnd ==
    /\ pc = "parse"
    /\ declIx > Len(decls)
    /\ pc' = "expand"
    /\ UNCHANGED <<templates, options, apis, apiIx, cur, depth, unchecked, callIx, result>>
    /\ UNCHANGED parserVars

\* no client block is being read
TopIdle ==
    /\ decls = <<>>
    /\ declIx = 1
    /\ clientName = NoClientName
    /\ hasOptions = FALSE
    /\ hasHooks = FALSE

----------------------------------------------------------------------------
(* Integer limits: IntLimits::try_parse of parse.rs *)

\* usize::MAX, the value last_max starts with, at the integer width of the model
UsizeMax == 2147483647

\* Option<Box<Expr>> of a range end: an integer literal or nothing
None == [some |-> FALSE, v |-> 0]
Some(v) == [some |-> TRUE, v |-> v]

\* IntLimit::Range (syn::ExprRange: start, `..` or `..=`, end) and IntLimit::Opt
RangeLimit(start, closed, end) == [kind |-> "Range", start |-> start, closed |-> closed, end |-> end, v |-> 0]
OptLimit(v) == [kind |-> "Opt", start |-> None, closed |-> TRUE, end |-> None, v |-> v]

\* one iteration of the for loop of IntLimits::try_parse
LimitStep ==
    /\ limResult = NoResult
    /\ limIx <= Len(limits)
    /\ LET limit == limits[limIx] IN
       IF limit.kind = "Range"
       THEN IF limit.start.some /\ last_max # UsizeMax /\ last_max > limit.start.v
            THEN /\ limResult' = "range conflict"
                 /\ UNCHANGED <<limIx, last_max>>
            ELSE /\ last_max' = IF limit.end.some THEN limit.end.v ELSE last_max
                 /\ limIx' = limIx + 1
                 /\ UNCHANGED limResult
       ELSE /\ last_max' = IF limit.v > last_max THEN limit.v ELSE last_max
            /\ limIx' = limIx + 1
            /\ UNCHANGED limResult
    /\ UNCHANGED <<limits, passVars, uriVars, fieldVars, blockVars>>

\* Ok(Some(Self { paren, limits }))
LimitsOk ==
    /\ limResult = NoResult
    /\ limIx > Len(limits)
    /\ limResult' = "ok"
    /\ UNCHANGED <<limits, limIx, last_max, passVars, uriVars, fieldVars, blockVars>>

\* no integer type is being parsed
LimitsIdle ==
    /\ limits = <<>>
    /\ limIx = 1
    /\ last_max = UsizeMax
    /\ limResult = "ok"

\* no part of a client block is being parsed
BlockIdle == BracedIdle /\ NamingIdle /\ TopIdle

\* no parser of a single item is running
ParsersIdle == LimitsIdle /\ UriIdle /\ FieldsIdle /\ BlockIdle

\* Client::parse is not running
PassesIdle ==
    /\ templates = <<>>
    /\ options = <<>>
    /\ apis = <<>>
    /\ pc = "done"
    /\ apiIx = 1
    /\ callIx = 1
    /\ cur = ""
    /\ depth = 0
    /\ unchecked = {}
    /\ result = "ok"

----------------------------------------------------------------------------
(* Inputs *)

\* an api as Api::try_parse leaves it; declared keeps the body's fields as parsed,
\* and the body is followed by `= $var` (ApiRequestData.data_var is Some)
Api(extend, fields, removed_fields, sites) ==
    [extend |-> extend, fields |-> fields, declared |-> fields,
     removed_fields |-> removed_fields, sites |-> sites, variables |-> <<>>,
     data_var |-> TRUE]

\* a template of the registry
Template(extend, fields, removed_fields) ==
    [extend |-> extend, fields |-> fields, removed_fields |-> removed_fields]

\* the forms of a variable reference: $id, ${id: string}, ${id: u64}, $$id, $n
VarForms ==
    {Variable("id", t, FALSE) : t \in {NoType, StringT, U64T}}
    \cup {Variable("id", NoType, TRUE), Variable("n", NoType, FALSE)}

Site(p, v, t, k) == [pos |-> p, var |-> v, ftyp |-> t, kind |-> k]

\* a variable in the url literal
UrlSites == {Site(p, v, NoType, "Variable") : p \in {"host", "port", "path", "uquery"}, v \in VarForms}
\* a variable in a header field: header fields carry no type
HeaderSites == {Site("header", v, NoType, k) : v \in VarForms, k \in {"Variable", "Join"}}
\* a variable assigned to a typed field of the query section
QuerySites == {Site("query", v, t, "Variable") : v \in VarForms, t \in {StringT, U64T}}
\* a variable used by the expression of a typed field of the body
BodySites == {Site("body", v, t, k) : v \in VarForms, t \in {StringT, U64T},
                                       k \in {"Variable", "Json", "Join"}}
Sites == UrlSites \cup HeaderSites \cup QuerySites \cup BodySites

\* the occurrences of one endpoint, in the order of the walk; a url has one port
SiteLists ==
    {s \in UNION {[1..n -> Sites] : n \in 0..MaxOccs} :
        /\ \A i, j \in DOMAIN s : i < j => PosIx(s[i].pos) <= PosIx(s[j].pos)
        /\ Cardinality({i \in DOMAIN s : s[i].pos = "port"}) <= 1}

\* the option maps of a client: no options, or an option id of type string
OptionMaps == {<<>>, [o \in {"id"} |-> StringT]}

NoTemplates == <<>>

----------------------------------------------------------------------------
(* The Variable Collector on one endpoint *)

InitVars ==
    /\ templates = NoTemplates
    /\ options \in OptionMaps
    /\ \E s \in SiteLists : apis = <<Api(NoName, <<>>, {}, s)>>
    /\ pc = "collect"
    /\ apiIx = 1
    /\ callIx = 1
    /\ cur = NoName
    /\ depth = 0
    /\ unchecked = {}
    /\ result = NoResult
    /\ ParsersIdle

NextVars == CollectVar \/ CheckOptions \/ Finish

SpecVars == InitVars /\ [][NextVars]_vars

----------------------------------------------------------------------------
(* Claims about the Variable Collector, checked under SpecVars *)

\* Client::parse has returned
Finished == pc \in {"done", "error"}

\* the variable references of an api that are per-call variables of name n
RefsOf(api, n) == {i \in DOMAIN api.sites : api.sites[i].var.name = n /\ ~api.sites[i].var.client_option}

\* C6: after the Variable Collector has run on an endpoint, no two entries of
\* the endpoint's variable list have the same name.
C6_EachVariableOnce ==
    pc = "done" =>
        \A a \in DOMAIN apis :
            \A i, j \in DOMAIN apis[a].variables :
                i # j => apis[a].variables[i].name # apis[a].variables[j].name

\* C7: whenever variable collection of an endpoint succeeds, all entries of
\* the variable list that carry one name carry one type.
C7_OneTypePerName ==
    pc = "done" =>
        \A a \in DOMAIN apis :
            \A i, j \in DOMAIN apis[a].variables :
                apis[a].variables[i].name = apis[a].variables[j].name
                    => apis[a].variables[i].typ = apis[a].variables[j].typ

\* C8: when two occurrences of one variable both declare a type and the two
\* declared types are not structurally equal, variable collection does not
\* succeed, whatever the types of the fields the occurrences are assigned to
\* (the claim names the error, "unmatched variable type"; the formula asks
\* only that Client::parse does not return Ok).
C8_DeclaredTypesMustMatch ==
    \A a \in DOMAIN apis :
        (\E i, j \in DOMAIN apis[a].sites :
            /\ i < j
            /\ apis[a].sites[i].var.name = apis[a].sites[j].var.name
            /\ ~apis[a].sites[i].var.client_option
            /\ ~apis[a].sites[j].var.client_option
            /\ apis[a].sites[i].var.typ # NoType
            /\ apis[a].sites[j].var.typ # NoType
            /\ ~TypeEq(apis[a].sites[i].var.typ, apis[a].sites[j].var.typ))
        => pc # "done"

\* C9: when the first occurrence of a variable declares a non-string type T
\* and a later occurrence of the name is untyped and sits where no type is
\* supplied (url host, path or query, header), variable collection succeeds
\* and the variable has type T. The first occurrence is taken in the url
\* host or in a header, where the walk collects it once.
C9_TypedThenUntyped ==
    \A a \in DOMAIN apis :
        \A i, j \in DOMAIN apis[a].sites :
            (/\ i < j
             /\ i = MinOf(RefsOf(apis[a], apis[a].sites[i].var.name) \cup {i})
             /\ apis[a].sites[j].var.name = apis[a].sites[i].var.name
             /\ ~apis[a].sites[i].var.client_option
             /\ ~apis[a].sites[j].var.client_option
             /\ apis[a].sites[i].var.typ # NoType
             /\ ~is_string(apis[a].sites[i].var.typ)
             /\ apis[a].sites[i].pos \in {"host", "header"}
             /\ apis[a].sites[j].var.typ = NoType
             /\ apis[a].sites[j].pos \in {"host", "path", "uquery", "header"}
             /\ apis[a].sites[j].kind = "Variable"
             /\ Finished)
            => /\ result = "ok"
               /\ \A k \in DOMAIN apis[a].variables :
                      apis[a].variables[k].name = apis[a].sites[i].var.name
                          => apis[a].variables[k].typ = apis[a].sites[i].var.typ

\* C10: every client-option reference $$name of an endpoint is validated: when
\* the client declares no option of that name, compilation does not succeed
\* (the claim names the error, "no such option"; the formula asks only that
\* Client::parse does not return Ok).
C10_OptionMustExist ==
    \A a \in DOMAIN apis :
        (\E i \in DOMAIN apis[a].sites :
            /\ apis[a].sites[i].var.client_option
            /\ apis[a].sites[i].var.name \notin DOMAIN options)
        => pc # "done"


\* the place of the first entry of name n in a variable list
FirstEntry(variables, n) == MinOf({k \in DOMAIN variables : variables[k].name = n})

\* C11: in the variable list of a compiled endpoint, of two per-call
\* variables of distinct names the one whose first occurrence comes earlier in
\* the walk host, port, path, url query, header, query section, body has its
\* first entry earlier in the list.
C11_FirstSeenOrder ==
    pc = "done" =>
        \A a \in DOMAIN apis :
            \A i, j \in DOMAIN apis[a].sites :
                (/\ i < j
                 /\ ~apis[a].sites[i].var.client_option
                 /\ ~apis[a].sites[j].var.client_option
                 /\ apis[a].sites[i].var.name # apis[a].sites[j].var.name
                 /\ i = MinOf(RefsOf(apis[a], apis[a].sites[i].var.name))
                 /\ j = MinOf(RefsOf(apis[a], apis[a].sites[j].var.name)))
                => /\ \E k \in DOMAIN apis[a].variables :
                          apis[a].variables[k].name = apis[a].sites[i].var.name
                   /\ \E k \in DOMAIN apis[a].variables :
                          apis[a].variables[k].name = apis[a].sites[j].var.name
                   /\ FirstEntry(apis[a].variables, apis[a].sites[i].var.name)
                        < FirstEntry(apis[a].variables, apis[a].sites[j].var.name)

\* C11 witness: an endpoint with a variable in the url path and another in
\* the body has compiled, and the list starts with the path variable
C11_Witness ==
    /\ pc = "done"
    /\ \E a \in DOMAIN apis :
          /\ Len(apis[a].sites) = 2
          /\ apis[a].sites[1].pos = "path"
          /\ apis[a].sites[2].pos = "body"
          /\ apis[a].sites[1].var.name # apis[a].sites[2].var.name
          /\ ~apis[a].sites[1].var.client_option
          /\ ~apis[a].sites[2].var.client_option
          /\ apis[a].variables[1].name = apis[a].sites[1].var.name
          /\ apis[a].variables[Len(apis[a].variables)].name = apis[a].sites[2].var.name

\* C17: an endpoint whose only variable is an untyped port variable
\* compiles, and its variable list holds that variable with the type u16.
C17_UntypedPortIsU16 ==
    \A a \in DOMAIN apis :
        (/\ Finished
         /\ Len(apis[a].sites) = 1
         /\ apis[a].sites[1].pos = "port"
         /\ apis[a].sites[1].var.typ = NoType
         /\ ~apis[a].sites[1].var.client_option)
        => /\ pc = "done"
           /\ \E k \in DOMAIN apis[a].variables :
                 /\ apis[a].variables[k].name = apis[a].sites[1].var.name
                 /\ apis[a].variables[k].typ = U16T

\* C27: an endpoint whose url path has one braced variable of a type that is
\* not a string (`/items/${id: u64}`) compiles, and its variable list has
\* that variable with that type.
C27_TypedPathVariable ==
    (/\ Finished
     /\ Len(apis[1].sites) = 1
     /\ apis[1].sites[1].pos = "path"
     /\ apis[1].sites[1].var = Variable("id", U64T, FALSE))
        => /\ result = "ok"
           /\ apis[1].variables = <<Variable("id", U64T, FALSE)>>

----------------------------------------------------------------------------
(* Client::parse on a registry of templates and a list of endpoints *)

\* the endpoints' variable occurrences: none, or the path variable ${id: u64}
PipelineSiteLists == {<<>>, <<Site("path", Variable("id", U64T, FALSE), NoType, "Variable")>>}

PipelineApis == {Api(e, <<>>, {}, s) : e \in ExtendNames, s \in PipelineSiteLists}

\* every template declares one field, named after the template
Registries ==
    {[n \in TNames |-> Template(e[n], <<Field(n, U64T)>>, {})] : e \in [TNames -> ExtendNames]}

Init ==
    /\ templates \in Registries
    /\ options = <<>>
    /\ apis \in UNION {[1..n -> PipelineApis] : n \in 0..MaxApis}
    /\ pc = "expand"
    /\ apiIx = 1
    /\ callIx = 1
    /\ cur = NoName
    /\ depth = 0
    /\ unchecked = {}
    /\ result = NoResult
    /\ ParsersIdle

Next ==
    \/ ExtendApi
    \/ ExtendTemplates
    \/ ResolveNames
    \/ CheckRecycle
    \/ CollectVar
    \/ CheckOptions
    \/ Finish

Spec == Init /\ [][Next]_vars

----------------------------------------------------------------------------
(* Template expansion of one endpoint body over a chain of templates *)

\* the declared keys of the fields
FieldNames == {"a", "b", "c"}

\* the key lists of a field-set: no key twice
NameSeqs ==
    {s \in UNION {[1..n -> FieldNames] : n \in 0..MaxFields} :
        \A i, j \in DOMAIN s : i # j => s[i] # s[j]}

FieldsOf(names, t) == [i \in DOMAIN names |-> Field(names[i], t)]

\* the fields of the body are strings, the fields of a template have a type of its own
TemplateTypes == <<U64T, BoolT, DatetimeT, MapT>>
TypeOfTemplate(i) == TemplateTypes[((i - 1) % Len(TemplateTypes)) + 1]
TIndex(n) == CHOOSE i \in 1..NTemplates : TName(i) = n

\* the registry t1: t2, t2: t3, ... with the last template a root
ChainRegistry(ns) ==
    [n \in TNames |->
        Template(IF TIndex(n) < NTemplates THEN TName(TIndex(n) + 1) ELSE NoName,
                 FieldsOf(ns[TIndex(n)], TypeOfTemplate(TIndex(n))),
                 {})]

InitExpand ==
    /\ \E ns \in [0..NTemplates -> NameSeqs], r \in {{}, {"a"}}, k \in 1..NTemplates :
          /\ templates = ChainRegistry(ns)
          /\ apis = <<Api(TName(k), FieldsOf(ns[0], StringT), r, <<>>)>>
    /\ options = <<>>
    /\ pc = "expand"
    /\ apiIx = 1
    /\ callIx = 1
    /\ cur = NoName
    /\ depth = 0
    /\ unchecked = {}
    /\ result = NoResult
    /\ ParsersIdle

NextExpand == ExtendApi \/ ExtendTemplates

SpecExpand == InitExpand /\ [][NextExpand]_vars

----------------------------------------------------------------------------
(* Claims about the template registry, checked under Spec *)

RECURSIVE AncestorsWithin(_, _, _)
\* the templates reached from n by at most k parent links
AncestorsWithin(tpls, n, k) ==
    IF k = 0 \/ n \notin DOMAIN tpls THEN {}
    ELSE IF tpls[n].extend = NoName THEN {}
         ELSE {tpls[n].extend} \cup AncestorsWithin(tpls, tpls[n].extend, k - 1)

Ancestors(tpls, n) == AncestorsWithin(tpls, n, Cardinality(DOMAIN tpls))

\* some template is reachable from itself through parent links
HasCycle == \E n \in DOMAIN templates : n \in Ancestors(templates, n)

\* every parent a template names is in the registry
AllParentsExist ==
    \A n \in DOMAIN templates : templates[n].extend \in DOMAIN templates \cup {NoName}

NoApiExtends == \A a \in DOMAIN apis : apis[a].extend = NoName

CycleError == "cannot extend template back to self"

\* C1: in a registry where every parent exists and no template is reachable
\* from itself, the registry-wide cycle check reports no error.
C1_AcyclicRegistryPasses ==
    (AllParentsExist /\ ~HasCycle) => result \notin {CycleError, "no such template"}

\* C2 as stated: in a registry that holds a cycle of parent links, with no
\* endpoint extending a template, compilation ends with the cycle error.
C2_CycleRejected_Original ==
    (Finished /\ HasCycle /\ NoApiExtends) => result = CycleError

\* C2 amended: in a registry that holds a cycle of parent links and in which
\* every named parent exists, with no endpoint extending a template,
\* compilation ends with the error "cannot extend template back to self".
C2_CycleRejected ==
    (Finished /\ HasCycle /\ AllParentsExist /\ NoApiExtends) => result = CycleError

\* C2 witness: the cycle check has rejected a registry with a cycle of two templates
C2_Witness ==
    /\ pc = "error"
    /\ result = CycleError
    /\ HasCycle
    /\ AllParentsExist
    /\ NoApiExtends
    /\ Len(apis) > 0
    /\ \E n \in DOMAIN templates : templates[n].extend \notin {n, NoName}

\* C3: compilation of a client block terminates with an AST or an error: a
\* state in which Client::parse has not returned has a next step.
C3_Terminates == Finished \/ ENABLED Next

\* an endpoint body extends a name that no template of the registry has
ApiExtendsMissing ==
    \E a \in DOMAIN apis : apis[a].extend # NoName /\ apis[a].extend \notin DOMAIN templates

\* C24: extending a template name that does not exist fails with "no such
\* template", when a template names a missing parent and when an endpoint body
\* extends a name that is not in the registry.
C24_NoSuchTemplate ==
    (Finished /\ ~HasCycle /\ (~AllParentsExist \/ ApiExtendsMissing))
        => result = "no such template"

\* the error the cycle check raises when the iteration yields name first
RecycleError(name) ==
    LET r == check_recycle_ref(templates, name, <<>>) IN
    IF r = "cycle" THEN "cannot extend template back to self" ELSE r

\* C30: the outcome of compiling a block is a function of the block and does
\* not depend on the iteration order of the template HashMap: when the cycle
\* check starts, whichever template the iteration yields first among those
\* that fail, the error is the same, also when the registry holds a missing
\* parent and a flagged chain.
C30_OrderIndependent ==
    (pc = "cycle" /\ unchecked = DOMAIN templates) =>
        \A n, m \in unchecked :
            (RecycleError(n) # "ok" /\ RecycleError(m) # "ok")
                => RecycleError(n) = RecycleError(m)

----------------------------------------------------------------------------
(* Claims about template expansion, checked under SpecExpand *)

RECURSIVE Chain(_, _, _)
\* the templates an extend reference inherits from, nearest first
Chain(tpls, n, k) ==
    IF k = 0 \/ n \notin DOMAIN tpls THEN <<>>
    ELSE <<n>> \o (IF tpls[n].extend = NoName THEN <<>> ELSE Chain(tpls, tpls[n].extend, k - 1))

RECURSIVE ReachesRoot(_, _, _)
\* the parent links from n end at a template without parent
ReachesRoot(tpls, n, k) ==
    /\ k > 0
    /\ n \in DOMAIN tpls
    /\ (tpls[n].extend # NoName => ReachesRoot(tpls, tpls[n].extend, k - 1))

RECURSIVE InheritedFields(_, _)
\* the fields of the templates of a chain, one template after the other
InheritedFields(tpls, chain) ==
    IF chain = <<>> THEN <<>>
    ELSE tpls[Head(chain)].fields \o InheritedFields(tpls, Tail(chain))

ChainOf(api) == Chain(templates, api.extend, Cardinality(DOMAIN templates))
InheritedOf(api) == InheritedFields(templates, ChainOf(api))

\* the inherited fields the claim keeps: not removed, not declared by the
\* body, not inherited from a nearer place already
KeptOf(api) ==
    {i \in DOMAIN InheritedOf(api) :
        /\ InheritedOf(api)[i].name \notin api.removed_fields
        /\ \A j \in DOMAIN api.declared : api.declared[j].name # InheritedOf(api)[i].name
        /\ \A j \in 1..(i - 1) : InheritedOf(api)[j].name # InheritedOf(api)[i].name}

RECURSIVE PickFrom(_, _, _)
PickFrom(s, K, i) ==
    IF i > Len(s) THEN <<>>
    ELSE (IF i \in K THEN <<s[i]>> ELSE <<>>) \o PickFrom(s, K, i + 1)

\* the expansion pass has run over every endpoint
Expanded == pc = "naming"

\* C4: the expanded body is the body's own fields in declared order, followed
\* by the fields of T, of T's parent and so on up to the root, an inherited
\* field being kept only if its name is not in the body's removal set and no
\* field of that name came before it.
C4_ExpansionResult ==
    Expanded =>
        \A a \in DOMAIN apis :
            ReachesRoot(templates, apis[a].extend, Cardinality(DOMAIN templates))
                => apis[a].fields = apis[a].declared \o PickFrom(InheritedOf(apis[a]), KeptOf(apis[a]), 1)

\* C4 witness: a body extending a template with a parent, where a declared
\* field overrode an inherited one and a field of the parent was appended
C4_Witness ==
    /\ Expanded
    /\ \E a \in DOMAIN apis :
          /\ Len(ChainOf(apis[a])) >= 2
          /\ ReachesRoot(templates, apis[a].extend, Cardinality(DOMAIN templates))
          /\ \E i \in DOMAIN apis[a].declared, j \in DOMAIN templates[ChainOf(apis[a])[1]].fields :
                apis[a].declared[i].name = templates[ChainOf(apis[a])[1]].fields[j].name
          /\ \E i \in DOMAIN apis[a].fields :
                /\ i > Len(apis[a].declared)
                /\ apis[a].fields[i] \in Range(templates[ChainOf(apis[a])[2]].fields)
          /\ apis[a].removed_fields \cap {f.name : f \in Range(InheritedOf(apis[a]))} # {}

\* the body and the templates it inherits from declare pairwise distinct names
DistinctNames(api) ==
    LET all == api.declared \o InheritedOf(api) IN
    \A i, j \in DOMAIN all : i # j => all[i].name # all[j].name

\* C5: when the body and the templates it inherits from declare pairwise
\* distinct names and nothing is removed, the set of (name, type) fields after
\* expansion is the union of all of them, whatever the declaration order.
C5_OrderIndependent ==
    Expanded =>
        \A a \in DOMAIN apis :
            (/\ ReachesRoot(templates, apis[a].extend, Cardinality(DOMAIN templates))
             /\ DistinctNames(apis[a])
             /\ apis[a].removed_fields = {})
            => Range(apis[a].fields) = Range(apis[a].declared) \cup Range(InheritedOf(apis[a]))

\* C5 witness: a body with a field of its own has inherited two fields of one
\* template, declared in the order b, a
C5_Witness ==
    /\ Expanded
    /\ \E a \in DOMAIN apis :
          /\ DistinctNames(apis[a])
          /\ apis[a].removed_fields = {}
          /\ Len(apis[a].declared) >= 1
          /\ Len(apis[a].fields) = Len(apis[a].declared) + 2
          /\ \E n \in Range(ChainOf(apis[a])) :
                /\ Len(templates[n].fields) = 2
                /\ templates[n].fields[1].name = "b"
                /\ templates[n].fields[2].name = "a"

----------------------------------------------------------------------------
(* Template expansion over templates that remove fields themselves *)

\* the removal sets of a template: nothing, or `-a`
RemovalSets == {{}, {"a"}}

\* ChainRegistry with the removal set rs[i] in template i
RemovingRegistry(ns, rs) ==
    [n \in TNames |-> [ChainRegistry(ns)[n] EXCEPT !.removed_fields = rs[TIndex(n)]]]

InitRemoval ==
    /\ \E ns \in [0..NTemplates -> NameSeqs], rs \in [1..NTemplates -> RemovalSets] :
          /\ templates = RemovingRegistry(ns, rs)
          /\ apis = <<Api(TName(1), FieldsOf(ns[0], StringT), {}, <<>>)>>
    /\ options = <<>>
    /\ pc = "expand"
    /\ apiIx = 1
    /\ callIx = 1
    /\ cur = NoName
    /\ depth = 0
    /\ unchecked = {}
    /\ result = NoResult
    /\ ParsersIdle

SpecRemoval == InitRemoval /\ [][NextExpand]_vars

\* the keys of a list of fields
NamesOf(fields) == {fields[i].name : i \in DOMAIN fields}

\* C28: when a body extends template T, T has parent P, and T's own removal
\* set holds the key f of a field of P, then f is not in the expanded body
\* unless the body or T declares f.
C28_TemplateRemovalSets ==
    Expanded =>
        \A a \in DOMAIN apis :
            Len(ChainOf(apis[a])) >= 2 =>
                \A f \in templates[ChainOf(apis[a])[1]].removed_fields :
                    (/\ f \in NamesOf(templates[ChainOf(apis[a])[2]].fields)
                     /\ f \notin NamesOf(apis[a].declared)
                     /\ f \notin NamesOf(templates[ChainOf(apis[a])[1]].fields))
                    => f \notin NamesOf(apis[a].fields)

----------------------------------------------------------------------------
(* IntLimits::try_parse on the limits of one integer type *)

\* the largest integer literal of a clause
MaxLit == 3
\* the largest number of clauses of one integer type
MaxClauses == 2

Literals == {None} \cup {Some(v) : v \in 0..MaxLit}

LimitClauses ==
    {RangeLimit(s, c, e) : s \in Literals, c \in BOOLEAN, e \in Literals}
    \cup {OptLimit(v) : v \in 0..MaxLit}

InitLimits ==
    /\ limits \in UNION {[1..n -> LimitClauses] : n \in 0..MaxClauses}
    /\ limIx = 1
    /\ last_max = UsizeMax
    /\ limResult = NoResult
    /\ PassesIdle
    /\ UriIdle
    /\ FieldsIdle
    /\ BlockIdle

NextLimits == LimitStep \/ LimitsOk

SpecLimits == InitLimits /\ [][NextLimits]_vars

\* the clause is a range a..=b with both ends written
ClosedRange(limit) == limit.kind = "Range" /\ limit.closed /\ limit.start.some /\ limit.end.some

\* C12: a list of range clauses a..=b is accepted exactly when the upper bound
\* of each clause is greater than or equal to the upper bound of the clause
\* before it, and is rejected with "range conflict" otherwise.
C12_UpperBoundsAscend ==
    (limResult # NoResult /\ \A i \in DOMAIN limits : ClosedRange(limits[i]))
    => /\ limResult = "ok" <=> \A i \in 2..Len(limits) : limits[i].end.v >= limits[i - 1].end.v
       /\ limResult \in {"ok", "range conflict"}

\* C13: an integer type with the single range clause a..=b is rejected with
\* "range conflict" when b is smaller than a, and accepted otherwise.
C13_ReversedRangeRejected ==
    (limResult # NoResult /\ Len(limits) = 1 /\ ClosedRange(limits[1]))
    => IF limits[1].end.v < limits[1].start.v
       THEN limResult = "range conflict"
       ELSE limResult = "ok"

----------------------------------------------------------------------------
(* ApiUri::parse on one url literal, and again on the format string it made *)

\* parts the claims name: ?k=$v, :70000, /v_w, 256.1.1.1, 224.0.0.1
KeyValQuery == <<"?", "k", "=", "$", "v">>
BigPort == <<":", "7", "0", "0", "0", "0">>
BadCharPath == <<"/", "v", "_", "w">>
BadOctetHost == <<"2", "5", "6", ".", "1", ".", "1", ".", "1">>
MulticastHost == <<"2", "2", "4", ".", "0", ".", "0", ".", "1">>

\* the schemes: http://, https://
Schemas ==
    {<<"h", "t", "t", "p", ":", "/", "/">>,
     <<"h", "t", "t", "p", "s", ":", "/", "/">>}

\* no authority, u:p@
Auths ==
    {<<>>,
     <<"u", ":", "p", "@">>}

\* a.b, $$o.a.b, $h.b, 1.2.3.4, 224.0.0.1, 256.1.1.1
Hosts ==
    {<<"a", ".", "b">>,
     <<"$", "$", "o", ".", "a", ".", "b">>,
     <<"$", "h", ".", "b">>,
     <<"1", ".", "2", ".", "3", ".", "4">>,
     <<"2", "2", "4", ".", "0", ".", "0", ".", "1">>,
     <<"2", "5", "6", ".", "1", ".", "1", ".", "1">>}

\* no port, :80, :70000, :$p, :${p:u16}
Ports ==
    {<<>>,
     <<":", "8", "0">>,
     <<":", "7", "0", "0", "0", "0">>,
     <<":", "$", "p">>,
     <<":", "$", "{", "p", ":", "u", "1", "6", "}">>}

\* no path, /, /v1/$r, /v/, /v_w, /$r/x
Paths ==
    {<<>>,
     <<"/">>,
     <<"/", "v", "1", "/", "$", "r">>,
     <<"/", "v", "/">>,
     <<"/", "v", "_", "w">>,
     <<"/", "$", "r", "/", "x">>}

\* no query, ?k=$v, ?&k=$v, ?&k=w&&j, ?
Queries ==
    {<<>>,
     <<"?", "k", "=", "$", "v">>,
     <<"?", "&", "k", "=", "$", "v">>,
     <<"?", "&", "k", "=", "w", "&", "&", "j">>,
     <<"?">>}

\* no fragment, #f
Fragments ==
    {<<>>,
     <<"#", "f">>}


Written(s, a, h, po, pa, q, f) ==
    [schema |-> s, auth |-> a, host |-> h, port |-> po, path |-> pa, query |-> q, fragment |-> f]

\* a literal with a scheme, or a literal that starts with its path
WrittenUrls ==
    {Written(s, a, h, po, pa, q, f) :
        s \in Schemas, a \in Auths, h \in Hosts, po \in Ports, pa \in Paths, q \in Queries, f \in Fragments}
    \cup {Written(<<>>, <<>>, <<>>, <<>>, pa, q, f) : pa \in Paths, q \in Queries, f \in Fragments}

\* the value of the literal
TextOf(w) == w.schema \o w.auth \o w.host \o w.port \o w.path \o w.query \o w.fragment

InitUri ==
    /\ written \in WrittenUrls
    /\ literal = TextOf(written)
    /\ uriRest = literal
    /\ upc = "schema"
    /\ parsed = NoParts
    /\ apiUri = NewApiUri(literal)
    /\ uriResult = NoResult
    /\ round = 1
    /\ PassesIdle
    /\ LimitsIdle
    /\ FieldsIdle
    /\ BlockIdle

NextUri ==
    \/ UriSchema
    \/ UriAuthority
    \/ UriHost
    \/ UriPort
    \/ UriPath
    \/ UriQuery
    \/ UriFragment
    \/ UpdateApi
    \/ ParseAgain

SpecUri == InitUri /\ [][NextUri]_vars

----------------------------------------------------------------------------
(* Claims about the url parser, checked under SpecUri *)

\* ApiUri::parse of the literal as written has returned Ok
UriParsed == round = 1 /\ upc = "done"

\* host, port and path are written in the forms of the grammar
PlainParts ==
    /\ written.host \notin {BadOctetHost, MulticastHost}
    /\ written.port # BigPort
    /\ written.path # BadCharPath

\* C14: a url literal whose query part is ?k=$v parses into exactly one
\* query field, named k and bound to the variable v.
C14_QueryParams ==
    (UriParsed /\ PlainParts /\ written.query = KeyValQuery)
    => /\ apiUri.uri_query.some
       /\ Len(apiUri.uri_query.fields) = 1
       /\ apiUri.uri_query.fields[1].name = <<"k">>
       /\ apiUri.uri_query.fields[1].expr = "Variable"
       /\ apiUri.uri_query.fields[1].v.name = <<"v">>

\* C15: whenever ApiUri::parse succeeds, the parsers have consumed the whole
\* literal: no trailing characters are dropped.
C15_WholeLiteralRead == UriParsed => uriRest = <<>>

RECURSIVE Placeholders(_)
\* the text with every variable replaced by {}
Placeholders(text) ==
    IF text = <<>> THEN <<>>
    ELSE LET v == variable(text)
         IN IF v.ok THEN Placeholder \o Placeholders(v.rest)
            ELSE <<Head(text)>> \o Placeholders(Tail(text))

RECURSIVE VarNames(_)
\* the names of the variables of the text, in order
VarNames(text) ==
    IF text = <<>> THEN <<>>
    ELSE LET v == variable(text)
         IN IF v.ok THEN <<v.val.name>> \o VarNames(v.rest)
            ELSE VarNames(Tail(text))

RECURSIVE CountPlaceholders(_)
CountPlaceholders(text) ==
    IF Len(text) < 2 THEN 0
    ELSE IF Take(text, 2) = Placeholder THEN 1 + CountPlaceholders(Drop(text, 2))
         ELSE CountPlaceholders(Tail(text))

\* C16: the format string of a parsed url is the scheme, the authority, the
\* host, the port and the path as written, with each variable replaced by
\* {}; it has as many placeholders as the url has variables, and the i-th
\* variable of the list is the i-th variable written.
C16_FormatString ==
    (UriParsed /\ PlainParts)
    => /\ apiUri.uri_format =
            written.schema \o written.auth \o Placeholders(written.host \o written.port \o written.path)
       /\ CountPlaceholders(apiUri.uri_format) = Len(apiUri.uri_variables)
       /\ [i \in DOMAIN apiUri.uri_variables |-> apiUri.uri_variables[i].name]
            = VarNames(written.host \o written.port \o written.path)

\* C18: a url whose host is a dotted address of the multicast range fails
\* with "unsupported ip address", and a url whose dotted numeric host has an
\* octet above 255 is not accepted.
C18_Ipv4Hosts ==
    (round = 1 /\ uriResult # NoResult)
    => /\ written.host = MulticastHost => uriResult = "unsupported ip address"
       /\ written.host = BadOctetHost => uriResult # "ok"

\* C19: parsing the format string of a parsed url succeeds and gives the
\* same format string again.
C19_RoundTrip ==
    (round = 2 /\ uriResult # NoResult)
    => /\ uriResult = "ok"
       /\ apiUri.uri_format = literal

----------------------------------------------------------------------------
(* Field-sets of every kind with typed, assigned fields *)

FieldSets == {"options", "header", "query", "body"}
\* the header is read without types (BracedConfig::parse with parse_type = false)
FieldTypes(set) ==
    IF set = "header" THEN {NoType} ELSE {NoType, StringT, U32T, U64T, BoolT, ObjectT}
FieldExprs ==
    {NoExpr, ConstantExpr("String"), ConstantExpr("Int"), ConstantExpr("Bool"),
     OrExpr("Int"), OtherExpr("Json"), OtherExpr("Timestamp"), OtherExpr("Variable")}
TypedFields(set) == [typ : FieldTypes(set), expr : FieldExprs]

InitFields ==
    /\ fieldSet \in FieldSets
    /\ config \in UNION {[1..n -> TypedFields(fieldSet)] : n \in 0..MaxFields}
    /\ fldIx = 1
    /\ fldResult = NoResult
    /\ PassesIdle
    /\ LimitsIdle
    /\ UriIdle
    /\ BlockIdle

NextFields == CheckOptionField \/ StoreOptions \/ StoreRequestFields

SpecFields == InitFields /\ [][NextFields]_vars

----------------------------------------------------------------------------
(* Claims about the fields of a field-set, checked under SpecFields *)

\* a field `name: T = C` whose literal C is of another kind than T
Mismatched(f) ==
    /\ f.typ \notin {NoType, ObjectT}
    /\ f.expr.kind = "Constant"
    /\ ~is_type_and_constant_match(f.typ, f.expr.c)

\* a field `name: T = C` whose literal C is of the kind of T
Matching(f) ==
    /\ f.typ # NoType
    /\ f.expr.kind = "Constant"
    /\ is_type_and_constant_match(f.typ, f.expr.c)

\* C20: in every field-set (client options, request header, query and body)
\* the fields `name: T = C` are checked: when each literal is of the kind of
\* its type the field-set is accepted, and when a field has a literal of
\* another kind (a body field `X: string = 5`) reading the field-set fails
\* with "unmatch type with value".
C20_ExprTypeCheckEverywhere ==
    fldResult # NoResult =>
        /\ (\E i \in 1..Len(config) : Mismatched(config[i]))
              => fldResult \in {"unmatch type with value", "unsupported type"}
        /\ (config # <<>> /\ \A i \in 1..Len(config) : Matching(config[i]))
              => fldResult = "ok"

----------------------------------------------------------------------------
(* BracedConfig::parse on the entries of one typed field-set *)

\* largest number of entries between the braces
MaxEntries == 2

\* the declared keys: "FooBar", "foo_bar", "type"
Keys == {<<"F", "o", "o", "B", "a", "r">>, <<"f", "o", "o", "_", "b", "a", "r">>, <<"t", "y", "p", "e">>}
\* the aliases: none, `-> x`, `-> fn`
Aliases == {NoAlias, <<"x">>, <<"f", "n">>}

\* `[-] key [?] : type [-> alias] [= expr]`
Entry(removal, name, optional, typ, alias, expr) ==
    [removal |-> removal, bare |-> FALSE, name |-> name, optional |-> optional,
     typ |-> typ, alias |-> alias, expr |-> expr]
\* `- key`
BareRemoval(name) ==
    [removal |-> TRUE, bare |-> TRUE, name |-> name, optional |-> FALSE,
     typ |-> NoType, alias |-> NoAlias, expr |-> NoExpr]

Entries ==
    {Entry(r, n, o, t, a, x) : r \in BOOLEAN, n \in Keys, o \in BOOLEAN,
                               t \in {StringT, ConstStringT}, a \in Aliases,
                               x \in {NoExpr, ConstantExpr("Int"), OtherExpr("Variable")}}
    \cup {BareRemoval(n) : n \in Keys}

\* the fields of an object type: no removal, and no `= expr` is read
ObjectEntries ==
    {Entry(FALSE, n, o, t, a, NoExpr) : n \in Keys, o \in BOOLEAN,
                                        t \in {StringT, ConstStringT}, a \in Aliases}

InitBraced ==
    /\ \/ /\ bcKind = "config"
          /\ entries \in UNION {[1..n -> Entries] : n \in 0..MaxEntries}
       \/ /\ bcKind = "object"
          /\ entries \in UNION {[1..n -> ObjectEntries] : n \in 0..MaxEntries}
    /\ entIx = 1
    /\ bcFields = <<>>
    /\ bcRemoved = {}
    /\ bcResult = NoResult
    /\ PassesIdle
    /\ LimitsIdle
    /\ UriIdle
    /\ FieldsIdle
    /\ NamingIdle
    /\ TopIdle

NextBraced == ParseEntry \/ ParseObjectField \/ BracedOk

SpecBraced == InitBraced /\ [][NextBraced]_vars

----------------------------------------------------------------------------
(* Claims about the fields of a parsed field-set, checked under SpecBraced *)

\* the literal a field is written with: its constant type, else its constant expression
LiteralOf(f) ==
    IF f.typ.kind = "Constant" THEN LiteralValue(f.typ.token)
    ELSE IF f.expr.kind = "Constant" THEN LiteralValue(f.expr.c)
    ELSE NoDefault

\* C21: an optional field (`?`) has the default None unless it is written with
\* a literal (constant type or constant assignment), and then the literal is
\* its default; a field that is not optional has the literal as default if
\* there is one, and no default otherwise.
C21_FieldDefault ==
    \A i \in DOMAIN bcFields :
        LET f == bcFields[i] IN
        f.default = IF LiteralOf(f) # NoDefault THEN LiteralOf(f)
                    ELSE IF f.optional THEN NonePath ELSE NoDefault

\* C29: in every field-set of a compiled client (section field-sets and
\* nested object types) no two fields have the same derived identifier
\* (field_name): two keys that convert to the same snake-case identifier, as
\* "FooBar" and "foo_bar", are rejected with "duplicated field".
C29_FieldNamesDistinct ==
    bcResult = "ok" =>
        \A i, j \in DOMAIN bcFields : i # j => bcFields[i].field_name # bcFields[j].field_name

----------------------------------------------------------------------------
(* The naming pass on the endpoints of a client *)

\* largest number of fields, nested ones not counted, of all endpoints together
MaxNamed == 2

ApiNames == {<<"x">>, <<"y">>}
Idents == {<<"a">>, <<"a", "_", "b">>, <<"b", "_", "c">>, <<"c">>}

\* the fields of a nested object type: `b_c {}`, `c {}` or a string
InnerFields == {PlainField(<<"c">>), ObjectField(<<"b", "_", "c">>, <<>>), ObjectField(<<"c">>, <<>>)}
\* the fields of a body: a string, `{}`, or an object type with one field
OuterFields ==
    {PlainField(<<"a">>)} \cup {ObjectField(n, <<>>) : n \in Idents}
    \cup {ObjectField(n, <<f>>) : n \in {<<"a">>, <<"a", "_", "b">>}, f \in InnerFields}

\* the field lists of a body with n fields: no identifier twice
Bodies(n) ==
    {s \in [1..n -> OuterFields] :
        \A i, j \in DOMAIN s : i # j => s[i].field_name # s[j].field_name}

NamedApi(name, data, has_query) == [name |-> name, data |-> data, has_query |-> has_query]
\* the endpoints whose body has n fields
NamedApis(n) == {NamedApi(name, d, q) : name \in ApiNames, d \in Bodies(n), q \in BOOLEAN}

RECURSIVE ApiLists(_, _)
\* the lists of n endpoints with at most k fields together
ApiLists(n, k) ==
    IF n = 0 THEN {<<>>}
    ELSE UNION {{<<a>> \o r : a \in NamedApis(j), r \in ApiLists(n - 1, k - j)} : j \in 0..k}

InitNaming ==
    /\ astApis \in UNION {ApiLists(n, MaxNamed) : n \in 0..MaxApis}
    /\ astIx = 1
    /\ structNames = <<>>
    /\ astResult = NoResult
    /\ PassesIdle
    /\ LimitsIdle
    /\ UriIdle
    /\ FieldsIdle
    /\ BracedIdle
    /\ TopIdle

NextNaming == ResolveApi \/ ResolveOk

SpecNaming == InitNaming /\ [][NextNaming]_vars

----------------------------------------------------------------------------
(* Claims about the naming pass, checked under SpecNaming *)

\* C22: after the naming pass every object type has a name different from the
\* name of every other object type and of every section struct of the client:
\* two field paths (field a with child b_c, field a_b with child c) and two
\* endpoints never give the same name.
C22_StructNamesDistinct ==
    astResult = "ok" =>
        \A i, j \in DOMAIN structNames : i # j => structNames[i] # structNames[j]

----------------------------------------------------------------------------
(* Client::parse on the declarations of one client block *)

\* largest number of declarations of a client block
MaxDecls == 3

NameDecl(name) == [kind |-> "name", name |-> name]
OptionsDecl(fields) == [kind |-> "options", fields |-> fields]
TemplateDecl(name, template) == [kind |-> "template", name |-> name, template |-> template]
HooksDecl == [kind |-> "hooks"]
ApiDecl(name, api) == [kind |-> "api", name |-> name, api |-> api]
OtherDecl == [kind |-> "other"]

\* a field of the options: key, type and expression
OptionField(name, typ, expr) == [name |-> name, typ |-> typ, expr |-> expr]

\* a field of a body or of a template: key, type, and whether `= expr` follows
BodyField(name, typ, assigned) == [name |-> name, typ |-> typ, assigned |-> assigned]

\* an api whose body is not followed by `= $var`
ApiNoVar(extend, fields, sites) == [Api(extend, fields, {}, sites) EXCEPT !.data_var = FALSE]

Decls ==
    {NameDecl(<<"B">>), NameDecl(<<"b">>), HooksDecl, OtherDecl,
     OptionsDecl(<<OptionField("id", StringT, NoExpr)>>),
     OptionsDecl(<<OptionField("id", StringT, ConstantExpr("Int"))>>)}
    \cup {TemplateDecl(TName(1), Template(e, <<BodyField("a", ConstStringT, FALSE)>>, {})) :
            e \in {NoName, TName(1), MissingName}}
    \cup {ApiDecl(n, a) : n \in {<<"b">>, <<"B">>},
                          a \in {ApiNoVar(NoName, <<>>, <<>>),
                                 ApiNoVar(TName(1), <<>>, <<>>),
                                 ApiNoVar(MissingName, <<BodyField("b", StringT, FALSE)>>, <<>>)}}

\* name: Demo, template common { Action: string, Version: "v1" },
\* options { api: String },
\* post do_thing("https://$$api.example.com/api") { form: common { Target: string = $target } }
ExampleClient ==
    <<NameDecl(<<"B">>),
      TemplateDecl("common", Template(NoName, <<BodyField("Action", StringT, FALSE),
                                                BodyField("Version", ConstStringT, FALSE)>>, {})),
      OptionsDecl(<<OptionField("api", StringT, NoExpr)>>),
      ApiDecl(<<"b">>,
              ApiNoVar("common", <<BodyField("Target", StringT, TRUE)>>,
                       <<Site("host", Variable("api", NoType, TRUE), NoType, "Variable"),
                         Site("body", Variable("target", NoType, FALSE), StringT, "Variable")>>))>>

InitClient ==
    /\ decls \in UNION {[1..n -> Decls] : n \in 0..MaxDecls} \cup {ExampleClient}
    /\ declIx = 1
    /\ clientName = NoClientName
    /\ hasOptions = FALSE
    /\ hasHooks = FALSE
    /\ templates = NoTemplates
    /\ options = <<>>
    /\ apis = <<>>
    /\ pc = "parse"
    /\ apiIx = 1
    /\ callIx = 1
    /\ cur = NoName
    /\ depth = 0
    /\ unchecked = {}
    /\ result = NoResult
    /\ LimitsIdle
    /\ UriIdle
    /\ FieldsIdle
    /\ BracedIdle
    /\ NamingIdle

NextClient ==
    \/ ParseDecl
    \/ ParseEnd
    \/ ExtendApi
    \/ ExtendTemplates
    \/ ResolveNames
    \/ CheckRecycle
    \/ CollectVar
    \/ CheckOptions
    \/ Finish

SpecClient == InitClient /\ [][NextClient]_vars

----------------------------------------------------------------------------
(* Claims about whole client blocks, checked under SpecClient *)

\* the number of `name` declarations of the block, and of those the loop has accepted
NameDecls == Cardinality({i \in DOMAIN decls : decls[i].kind = "name"})
NamesRead == Cardinality({i \in DOMAIN decls : i < declIx /\ decls[i].kind = "name"})

\* C23: a client block compiles only with exactly one `name` declaration: a
\* block without `name` is rejected, and a block with two `name` declarations
\* is rejected (with "duplicate client name defined previously") when the
\* second one is read.
C23_ExactlyOneName ==
    /\ result = "ok" => NameDecls = 1
    /\ NamesRead <= 1

\* the fields of the body of the example, as key and type
ExampleBody == {<<"Action", StringT>>, <<"Version", ConstStringT>>, <<"Target", StringT>>}

\* C25: the example client (template common, option api, endpoint do_thing
\* whose form body extends common and assigns $target) compiles to one
\* endpoint whose body has exactly the fields Action: string, Version: "v1"
\* and Target: string, and whose variable list is exactly [target: string].
C25_EndToEnd ==
    (decls = ExampleClient /\ Finished) =>
        /\ result = "ok"
        /\ Len(apis) = 1
        /\ {<<apis[1].fields[i].name, apis[1].fields[i].typ>> : i \in DOMAIN apis[1].fields}
              = ExampleBody
        /\ apis[1].variables = <<Variable("target", StringT, FALSE)>>

\* C26: the first error raised in any phase (top-level parsing, template
\* expansion, object naming, cycle detection, variable collection) aborts the
\* compilation: the result is that error, no later phase runs, and the client
\* is returned only when every phase has passed.
C26_FirstErrorAborts ==
    /\ (result \notin {NoResult, "ok"}) <=> (pc = "error")
    /\ pc = "error" => ~ENABLED NextClient
    /\ (result = "ok") <=> (pc = "done")

\* the cycle check has raised an error for a client with an endpoint, and
\* variable collection has not run
C26_Witness ==
    /\ pc = "error"
    /\ result = "no such template"
    /\ Len(apis) = 1
    /\ apis[1].variables = <<>>
    /\ callIx = 1

====
